---- MODULE Spec2Model ----
(***************************************************************************)
(* Verification model of bugscanx-go.                                      *)
(*                                                                         *)
(* Part 1 models the scan engine of pkg/queuescanner/queuescanner.go: the  *)
(* caller goroutine (Add, Start), the worker goroutines (run), the         *)
(* buffered task queue, the sync.WaitGroup and the two atomic counters.    *)
(* Part 2 models one invocation of a probe function of cmd/ (scanProxy,    *)
(* scanSNI, scanCdnSsl): the dial retry loop, the TLS handshake, the       *)
(* detached exchange goroutine and the race against the result timer.      *)
(***************************************************************************)
EXTENDS Integers, Sequences, FiniteSets, TLC

\* ---------------------------------------------------------------- bounds
MaxThreads == 2
MaxTargets == 2
MaxLines == 3
MaxPorts == 2
MaxResponseLines == 3
MaxTemplatePieces == 2
MaxHostBits == 9
MaxWidth == 40
MaxAddrs == 2

VARIABLES
    \* ---- engine (queuescanner.go)
    threads,            \* QueueScanner.threads
    dataList,           \* Ctx.dataList: sequence of targets [id, ok]
    queue,              \* QueueScanner.queue: buffered channel contents
    closed,             \* the channel has been closed
    wgV,                \* sync.WaitGroup counter
    wgW,                \* sync.WaitGroup number of registered waiters
    sema,               \* sync.WaitGroup semaphore (pending wake-ups)
    mpc,                \* position of the caller goroutine
    idx,                \* index of the next target Start() sends
    wpc,                \* position of each worker goroutine
    wcur,               \* the target each worker holds
    ScanComplete,       \* Ctx.ScanComplete
    ScanSuccessCount,   \* Ctx.ScanSuccessCount
    invoked,            \* per target id: probe invocations started
    finished,           \* per target id: probe invocations returned
    panicked,           \* the runtime has panicked: the process is gone
    OutputFile,         \* Ctx.OutputFile: "" or a path
    mx,                 \* Ctx.mx: 0 when free, else the worker holding it
    fileHandle,         \* the worker holding an open *os.File, else 0
    file,               \* lines of the output file, in order
    ssCalls,            \* number of ScanSuccess calls entered
    fileErr,            \* per target id: "none", "open" or "write" failure
    \* ---- one probe invocation
    kind,               \* which probe function runs: "relay", "sni", "cdn"
    ppc,                \* position of the probe function (the worker)
    dialCount,          \* dialCount
    dials,              \* outcomes of the net.DialTimeout calls made so far
    conn,               \* the connection: "none", "open", "closed"
    handshook,          \* tlsConn.HandshakeContext has returned nil
    timerFired,         \* ctxResultTimeout.Done() is readable
    selected,           \* the select case taken: "none", "result", "timeout"
    xpc,                \* position of the detached exchange goroutine
    written,            \* the payload has been written to the connection
    scanned,            \* lines scanner.Scan() has delivered so far
    isPrefix,           \* isPrefix
    responseLines,      \* responseLines
    chanVal,            \* value the exchange offers on chanResult
    results,            \* arguments of the ScanSuccess calls, in order
    logged,             \* arguments of the c.Log calls, in order
    conns,              \* every connection the invocation opened: open/closed
    \* ---- the direct probe (cmd/scan_direct.go)
    hide,               \* directFlagHideLocation
    ports,              \* len(ports) of parsePorts; 0 when it returned an error
    portIdx,            \* position of the range loop over ports
    response,           \* string(buffer[:n]) of the last read
    parsed,             \* what extractHTTPHeaders returned for it
    attempts,           \* failed calls and responses read, in order
    \* ---- helper functions of the commands, called on their own
    arg,                \* the arguments of the call
    locals,                \* its local variables while it runs
    ret                 \* what the call returned

\* The output-file side of the context.
fvars == <<OutputFile, mx, fileHandle, file, ssCalls, fileErr>>

ectl == <<threads, dataList, queue, closed, wgV, wgW, sema, mpc, idx, wpc,
          wcur, invoked, finished, panicked, fvars>>

evars == <<ectl, ScanComplete, ScanSuccessCount>>

\* ---- one probe invocation (cmd/scan_proxy.go, scan_sni.go, scan_cdn_ssl.go)
\* State of the direct probe only.
dvars == <<hide, ports, portIdx, response, parsed, attempts>>

\* Arguments and result of a helper function called on its own.
uvars == <<arg, locals, ret>>

pvars == <<kind, ppc, dialCount, dials, conn, handshook, timerFired, selected, xpc,
           written, scanned, isPrefix, responseLines, chanVal, results, logged,
           conns, dvars, uvars>>

vars == <<evars, pvars>>

Workers == 1..threads
\* A scanner with one worker takes one target more than the others: enough
\* to fill its queue of two and make the feeding loop wait.
TargetLimit(n) == IF n = 1 THEN MaxTargets + 1 ELSE MaxTargets
TargetIds == 1..(MaxTargets + 1)
NoTarget == [id |-> 0, ok |-> FALSE]

\* Capacity of the task queue: make(chan ..., threads*2).
QueueCapTripled(n) == n * 3
QueueCap(n) == n * 2

\* ------------------------------------------------------------ engine init
\* NewQueueScanner: the queue is empty and open, the context is zero, and
\* `threads` goroutines have been spawned with `go t.run()`; none of them
\* has necessarily executed its first statement yet.
EngineInit ==
    /\ threads \in 1..MaxThreads
    /\ dataList = <<>>
    /\ queue = <<>>
    /\ closed = FALSE
    /\ wgV = 0
    /\ wgW = 0
    /\ sema = 0
    /\ mpc = "setup"
    /\ idx = 1
    /\ wpc = [w \in 1..threads |-> "start"]
    /\ wcur = [w \in 1..threads |-> NoTarget]
    /\ ScanComplete = 0
    /\ ScanSuccessCount = 0
    /\ invoked = [t \in TargetIds |-> 0]
    /\ finished = [t \in TargetIds |-> 0]
    /\ panicked = FALSE
    /\ OutputFile = ""
    /\ mx = 0
    /\ fileHandle = 0
    /\ file = <<>>
    /\ ssCalls = 0
    /\ fileErr = [t \in TargetIds |-> "none"]

\* ------------------------------------------------------ caller goroutine
AddReplacing ==
    /\ UNCHANGED <<pvars, fvars>>
    /\ ~panicked
    /\ mpc = "setup"
    /\ \E n \in 1..2 : \E oks \in [1..n -> BOOLEAN] :
          /\ Len(dataList) + n <= TargetLimit(threads)
          /\ dataList' = [i \in 1..n |-> [id |-> i, ok |-> oks[i]]]
    /\ UNCHANGED <<threads, queue, closed, wgV, wgW, sema, mpc, idx, wpc, wcur,
                   ScanComplete, ScanSuccessCount, invoked, finished, panicked>>

\* Add(dataList...): append the batch to the run's target list.  A target
\* is its position in the list plus whether its probe will satisfy the
\* probe's success predicate.
Add ==
    /\ UNCHANGED <<pvars, fvars>>
    /\ ~panicked
    /\ mpc = "setup"
    /\ \E n \in 1..2 : \E oks \in [1..n -> BOOLEAN] :
          /\ Len(dataList) + n <= TargetLimit(threads)
          /\ dataList' = dataList \o
                [i \in 1..n |-> [id |-> Len(dataList) + i, ok |-> oks[i]]]
    /\ UNCHANGED <<threads, queue, closed, wgV, wgW, sema, mpc, idx, wpc, wcur,
                   ScanComplete, ScanSuccessCount, invoked, finished, panicked>>

\* SetOutputFile(filename): called by the command before Start(), with the
\* value of its --output flag ("" when the flag is not given).
SetOutputFile ==
    /\ UNCHANGED pvars
    /\ ~panicked
    /\ mpc = "setup"
    /\ \E filename \in {"", "out"} :
          /\ filename # OutputFile
          /\ OutputFile' = filename
    /\ UNCHANGED <<threads, dataList, queue, closed, wgV, wgW, sema, mpc, idx,
                   wpc, wcur, ScanComplete, ScanSuccessCount, invoked, finished,
                   panicked, mx, fileHandle, file, ssCalls, fileErr>>

\* Start(): hideCursor, then enter the feeding loop.
StartCall ==
    /\ UNCHANGED <<pvars, fvars>>
    /\ ~panicked
    /\ mpc = "setup"
    /\ mpc' = "feed"
    /\ idx' = 1
    /\ UNCHANGED <<threads, dataList, queue, closed, wgV, wgW, sema, wpc, wcur,
                   ScanComplete, ScanSuccessCount, invoked, finished, panicked>>

\* s.queue <- data: blocks while the buffer is full.
StartSend ==
    /\ UNCHANGED <<pvars, fvars>>
    /\ ~panicked
    /\ mpc = "feed"
    /\ idx <= Len(dataList)
    /\ Len(queue) < QueueCap(threads)
    /\ queue' = Append(queue, dataList[idx])
    /\ idx' = idx + 1
    /\ UNCHANGED <<threads, dataList, closed, wgV, wgW, sema, mpc, wpc, wcur,
                   ScanComplete, ScanSuccessCount, invoked, finished, panicked>>

\* close(s.queue) after the range loop.
StartClose ==
    /\ UNCHANGED <<pvars, fvars>>
    /\ ~panicked
    /\ mpc = "feed"
    /\ idx > Len(dataList)
    /\ closed' = TRUE
    /\ mpc' = "wait"
    /\ UNCHANGED <<threads, dataList, queue, wgV, wgW, sema, idx, wpc, wcur,
                   ScanComplete, ScanSuccessCount, invoked, finished, panicked>>

\* s.wg.Wait(), first half: a zero counter returns at once, otherwise the
\* caller registers as a waiter and sleeps on the semaphore.
StartWait ==
    /\ UNCHANGED <<pvars, fvars>>
    /\ ~panicked
    /\ mpc = "wait"
    /\ IF wgV = 0
         THEN /\ mpc' = "returned"
              /\ wgW' = wgW
         ELSE /\ mpc' = "sleeping"
              /\ wgW' = wgW + 1
    /\ UNCHANGED <<threads, dataList, queue, closed, wgV, sema, idx, wpc, wcur,
                   ScanComplete, ScanSuccessCount, invoked, finished, panicked>>

\* s.wg.Wait(), second half: woken by the semaphore; a WaitGroup whose
\* state is no longer zero panics ("WaitGroup is reused before previous
\* Wait has returned"); otherwise Wait and Start return (showCursor).
StartWake ==
    /\ UNCHANGED <<pvars, fvars>>
    /\ ~panicked
    /\ mpc = "sleeping"
    /\ sema > 0
    /\ sema' = sema - 1
    /\ IF wgV # 0 \/ wgW # 0
         THEN /\ panicked' = TRUE
              /\ mpc' = mpc
         ELSE /\ panicked' = panicked
              /\ mpc' = "returned"
    /\ UNCHANGED <<threads, dataList, queue, closed, wgV, wgW, idx, wpc, wcur,
                   ScanComplete, ScanSuccessCount, invoked, finished>>

\* Start() called again after it returned: nothing re-makes the queue, so
\* the first `s.queue <- data` is a send on a closed channel and, with an
\* empty list, `close(s.queue)` closes a closed channel; either panics.
StartAgain ==
    /\ UNCHANGED <<pvars, fvars>>
    /\ ~panicked
    /\ mpc = "returned"
    /\ closed
    /\ mpc' = "again"
    /\ panicked' = TRUE
    /\ UNCHANGED <<threads, dataList, queue, closed, wgV, wgW, sema, idx, wpc,
                   wcur, ScanComplete, ScanSuccessCount, invoked, finished>>

\* ------------------------------------------------------ worker goroutines
\* run(): s.wg.Add(1), executed by the worker itself.  An Add that raises
\* the counter from zero while a waiter is registered panics ("WaitGroup
\* misuse: Add called concurrently with Wait").
RunWgAdd(w) ==
    /\ UNCHANGED <<pvars, fvars>>
    /\ ~panicked
    /\ wpc[w] = "start"
    /\ wgV' = wgV + 1
    /\ IF wgW # 0 /\ wgV + 1 = 1
         THEN /\ panicked' = TRUE
              /\ wpc' = wpc
         ELSE /\ panicked' = panicked
              /\ wpc' = [wpc EXCEPT ![w] = "recv"]
    /\ UNCHANGED <<threads, dataList, queue, closed, wgW, sema, mpc, idx, wcur,
                   ScanComplete, ScanSuccessCount, invoked, finished>>

\* a, ok := <-s.queue with a target available: the probe is entered.
RunRecv(w) ==
    /\ UNCHANGED <<pvars, fvars>>
    /\ ~panicked
    /\ wpc[w] = "recv"
    /\ queue # <<>>
    /\ wcur' = [wcur EXCEPT ![w] = Head(queue)]
    /\ queue' = Tail(queue)
    /\ invoked' = [invoked EXCEPT ![Head(queue).id] = @ + 1]
    /\ wpc' = [wpc EXCEPT ![w] = "scan"]
    /\ UNCHANGED <<threads, dataList, closed, wgV, wgW, sema, mpc, idx,
                   ScanComplete, ScanSuccessCount, finished, panicked>>

\* a, ok := <-s.queue on a closed and drained queue: !ok, break.
RunRecvClosed(w) ==
    /\ UNCHANGED <<pvars, fvars>>
    /\ ~panicked
    /\ wpc[w] = "recv"
    /\ queue = <<>>
    /\ closed
    /\ wpc' = [wpc EXCEPT ![w] = "done"]
    /\ UNCHANGED <<threads, dataList, queue, closed, wgV, wgW, sema, mpc, idx,
                   wcur, ScanComplete, ScanSuccessCount, invoked, finished,
                   panicked>>

\* Ctx.ScanSuccess: atomic.AddInt64(&c.ScanSuccessCount, 1).
ScanSuccessAddLost(n) == IF n = 1 THEN n ELSE n + 1
ScanSuccessAdd(n) == n + 1

\* atomic.AddInt64(&s.ctx.ScanComplete, 1).
ScanCompleteAddTwice(n) == n + 2
ScanCompleteAdd(n) == n + 1

\* c.mx.Lock() goes through only while nobody holds the mutex.
CanLockAlways(m) == TRUE
CanLock(m) == m = 0

\* Where ScanSuccess goes after os.OpenFile: the write when err == nil,
\* straight to c.mx.Unlock() otherwise.
AfterOpenErrorReturns(err) == IF err THEN "count" ELSE "ss_write"
AfterOpen(err) == IF err THEN "ss_unlock" ELSE "ss_write"

\* O_APPEND|O_CREATE|O_WRONLY and f.WriteString(s + "\n"): one more line.
FileAfterWriteTruncating(f, line) == <<line>>
FileAfterWrite(f, line) == Append(f, line)

\* s.scanFunc(s.ctx, a) runs up to its c.ScanSuccess call (a probe whose
\* target satisfies the success predicate makes one, with a string) or,
\* making none, up to its return.  ScanSuccess enters the file section
\* when an output file is configured.
RunScanFunc(w) ==
    /\ UNCHANGED pvars
    /\ ~panicked
    /\ wpc[w] = "scan"
    /\ IF wcur[w].ok
         THEN /\ ssCalls' = ssCalls + 1
              /\ wpc' = [wpc EXCEPT ![w] =
                            IF OutputFile # "" THEN "ss_lock" ELSE "ss_add"]
              /\ finished' = finished
         ELSE /\ ssCalls' = ssCalls
              /\ finished' = [finished EXCEPT ![wcur[w].id] = @ + 1]
              /\ wpc' = [wpc EXCEPT ![w] = "count"]
    /\ UNCHANGED <<threads, dataList, queue, closed, wgV, wgW, sema, mpc, idx,
                   wcur, ScanComplete, ScanSuccessCount, invoked, panicked,
                   OutputFile, mx, fileHandle, file, fileErr>>

\* ScanSuccess: c.mx.Lock().
ScanSuccessLock(w) ==
    /\ UNCHANGED pvars
    /\ ~panicked
    /\ wpc[w] = "ss_lock"
    /\ CanLock(mx)
    /\ mx' = w
    /\ wpc' = [wpc EXCEPT ![w] = "ss_open"]
    /\ UNCHANGED <<threads, dataList, queue, closed, wgV, wgW, sema, mpc, idx,
                   wcur, ScanComplete, ScanSuccessCount, invoked, finished,
                   panicked, OutputFile, fileHandle, file, ssCalls, fileErr>>

\* ScanSuccess: f, err := os.OpenFile(c.OutputFile, ...).
ScanSuccessOpen(w) ==
    /\ UNCHANGED pvars
    /\ ~panicked
    /\ wpc[w] = "ss_open"
    /\ \E err \in BOOLEAN :
          /\ wpc' = [wpc EXCEPT ![w] = AfterOpen(err)]
          /\ fileHandle' = IF err THEN fileHandle ELSE w
          /\ fileErr' = IF err THEN [fileErr EXCEPT ![wcur[w].id] = "open"]
                               ELSE fileErr
    /\ UNCHANGED <<threads, dataList, queue, closed, wgV, wgW, sema, mpc, idx,
                   wcur, ScanComplete, ScanSuccessCount, invoked, finished,
                   panicked, OutputFile, mx, file, ssCalls>>

\* ScanSuccess: f.WriteString(s + "\n"); f.Close().  The error of the
\* write is not looked at; a failed write leaves the file as it was.
ScanSuccessWrite(w) ==
    /\ UNCHANGED pvars
    /\ ~panicked
    /\ wpc[w] = "ss_write"
    /\ \E err \in BOOLEAN :
          /\ file' = IF err THEN file ELSE FileAfterWrite(file, wcur[w].id)
          /\ fileErr' = IF err THEN [fileErr EXCEPT ![wcur[w].id] = "write"]
                               ELSE fileErr
    /\ fileHandle' = 0
    /\ wpc' = [wpc EXCEPT ![w] = "ss_unlock"]
    /\ UNCHANGED <<threads, dataList, queue, closed, wgV, wgW, sema, mpc, idx,
                   wcur, ScanComplete, ScanSuccessCount, invoked, finished,
                   panicked, OutputFile, mx, ssCalls>>

\* ScanSuccess: c.mx.Unlock().
ScanSuccessUnlock(w) ==
    /\ UNCHANGED pvars
    /\ ~panicked
    /\ wpc[w] = "ss_unlock"
    /\ mx' = 0
    /\ wpc' = [wpc EXCEPT ![w] = "ss_add"]
    /\ UNCHANGED <<threads, dataList, queue, closed, wgV, wgW, sema, mpc, idx,
                   wcur, ScanComplete, ScanSuccessCount, invoked, finished,
                   panicked, OutputFile, fileHandle, file, ssCalls, fileErr>>

\* ScanSuccess: the atomic increment; ScanSuccess returns, the probe logs
\* the line and returns to run().
ScanSuccessCountUp(w) ==
    /\ UNCHANGED pvars
    /\ ~panicked
    /\ wpc[w] = "ss_add"
    /\ ScanSuccessCount' = ScanSuccessAdd(ScanSuccessCount)
    /\ finished' = [finished EXCEPT ![wcur[w].id] = @ + 1]
    /\ wpc' = [wpc EXCEPT ![w] = "count"]
    /\ UNCHANGED <<threads, dataList, queue, closed, wgV, wgW, sema, mpc, idx,
                   wcur, ScanComplete, invoked, panicked, fvars>>

\* atomic.AddInt64(&s.ctx.ScanComplete, 1); s.ctx.LogReplace(a.Name).
RunCount(w) ==
    /\ UNCHANGED <<pvars, fvars>>
    /\ ~panicked
    /\ wpc[w] = "count"
    /\ ScanComplete' = ScanCompleteAdd(ScanComplete)
    /\ wcur' = [wcur EXCEPT ![w] = NoTarget]
    /\ wpc' = [wpc EXCEPT ![w] = "recv"]
    /\ UNCHANGED <<threads, dataList, queue, closed, wgV, wgW, sema, mpc, idx,
                   ScanSuccessCount, invoked, finished, panicked>>

\* defer s.wg.Done(), first half: the atomic decrement.  The worker that
\* brings the counter to zero with a waiter registered goes on to release.
RunWgDone(w) ==
    /\ UNCHANGED <<pvars, fvars>>
    /\ ~panicked
    /\ wpc[w] = "done"
    /\ wgV' = wgV - 1
    /\ wpc' = [wpc EXCEPT ![w] =
                  IF wgV - 1 > 0 \/ wgW = 0 THEN "exited" ELSE "release"]
    /\ UNCHANGED <<threads, dataList, queue, closed, wgW, sema, mpc, idx, wcur,
                   ScanComplete, ScanSuccessCount, invoked, finished, panicked>>

\* defer s.wg.Done(), second half: the state must still be (0, waiters),
\* else panic; reset the state and wake every waiter.
RunWgRelease(w) ==
    /\ UNCHANGED <<pvars, fvars>>
    /\ ~panicked
    /\ wpc[w] = "release"
    /\ IF wgV # 0
         THEN /\ panicked' = TRUE
              /\ UNCHANGED <<wgW, sema, wpc>>
         ELSE /\ panicked' = panicked
              /\ sema' = sema + wgW
              /\ wgW' = 0
              /\ wpc' = [wpc EXCEPT ![w] = "exited"]
    /\ UNCHANGED <<threads, dataList, queue, closed, wgV, mpc, idx, wcur,
                   ScanComplete, ScanSuccessCount, invoked, finished>>

WorkerStep(w) ==
    \/ RunWgAdd(w)
    \/ RunRecv(w)
    \/ RunRecvClosed(w)
    \/ RunScanFunc(w)
    \/ ScanSuccessLock(w)
    \/ ScanSuccessOpen(w)
    \/ ScanSuccessWrite(w)
    \/ ScanSuccessUnlock(w)
    \/ ScanSuccessCountUp(w)
    \/ RunCount(w)
    \/ RunWgDone(w)
    \/ RunWgRelease(w)

Next ==
    \/ Add
    \/ SetOutputFile
    \/ StartCall
    \/ StartSend
    \/ StartClose
    \/ StartWait
    \/ StartWake
    \/ StartAgain
    \/ \E w \in Workers : RunWgAdd(w)
    \/ \E w \in Workers : RunRecv(w)
    \/ \E w \in Workers : RunRecvClosed(w)
    \/ \E w \in Workers : RunScanFunc(w)
    \/ \E w \in Workers : ScanSuccessLock(w)
    \/ \E w \in Workers : ScanSuccessOpen(w)
    \/ \E w \in Workers : ScanSuccessWrite(w)
    \/ \E w \in Workers : ScanSuccessUnlock(w)
    \/ \E w \in Workers : ScanSuccessCountUp(w)
    \/ \E w \in Workers : RunCount(w)
    \/ \E w \in Workers : RunWgDone(w)
    \/ \E w \in Workers : RunWgRelease(w)

\* ======================================================================
\* Part 2: one probe invocation
\* ======================================================================

\* ------------------------------------------------------- text as bytes
\* A Go string is modelled as the sequence of its characters.
Sp == <<" ">>

\* strings.HasPrefix(s, p)
HasPrefix(s, p) == Len(s) >= Len(p) /\ SubSeq(s, 1, Len(p)) = p

\* strings.Contains(s, sub)
Contains(s, sub) ==
    \E i \in 1..(Len(s) - Len(sub) + 1) : SubSeq(s, i, i + Len(sub) - 1) = sub

\* strings.Join(elems, sep)
RECURSIVE Join(_, _)
Join(elems, sep) ==
    IF elems = <<>> THEN <<>>
    ELSE IF Len(elems) = 1 THEN elems[1]
    ELSE elems[1] \o sep \o Join(Tail(elems), sep)

\* fmt verb %-Ns: left-justified, padded with spaces to width n, never cut.
PadRight(s, n) ==
    IF Len(s) >= n THEN s ELSE s \o [i \in 1..(n - Len(s)) |-> " "]

\* unicode.IsSpace on the bytes that occur here.
IsSpace(c) == c \in {" ", "\t", "\n", "\r", "\f"}

\* strings.Split(s, "\n"): never empty, the pieces between the newlines.
RECURSIVE SplitNewline(_)
SplitNewline(s) ==
    IF \E i \in 1..Len(s) : s[i] = "\n"
      THEN LET i == CHOOSE k \in 1..Len(s) :
                        s[k] = "\n" /\ \A j \in 1..(k - 1) : s[j] # "\n"
           IN <<SubSeq(s, 1, i - 1)>> \o SplitNewline(SubSeq(s, i + 1, Len(s)))
      ELSE <<s>>

\* strings.TrimSpace(s)
TrimSpace(s) ==
    IF \A i \in 1..Len(s) : IsSpace(s[i]) THEN <<>>
    ELSE LET a == CHOOSE k \in 1..Len(s) :
                      ~IsSpace(s[k]) /\ \A j \in 1..(k - 1) : IsSpace(s[j])
             b == CHOOSE k \in 1..Len(s) :
                      ~IsSpace(s[k]) /\ \A j \in (k + 1)..Len(s) : IsSpace(s[j])
         IN SubSeq(s, a, b)

\* strings.Fields(s): the maximal runs of non-space bytes.
RECURSIVE Fields(_)
Fields(s) ==
    IF \A i \in 1..Len(s) : IsSpace(s[i]) THEN <<>>
    ELSE LET a == CHOOSE k \in 1..Len(s) :
                      ~IsSpace(s[k]) /\ \A j \in 1..(k - 1) : IsSpace(s[j])
             b == IF \E k \in a..Len(s) : IsSpace(s[k])
                    THEN CHOOSE k \in a..Len(s) :
                             IsSpace(s[k]) /\ \A j \in a..(k - 1) : ~IsSpace(s[j])
                    ELSE Len(s) + 1
         IN <<SubSeq(s, a, b - 1)>> \o Fields(SubSeq(s, b, Len(s)))

\* strings.ToLower on ASCII letters.
UpperLetters == <<"A", "B", "C", "D", "E", "F", "G", "H", "I", "J", "K", "L", "M",
                  "N", "O", "P", "Q", "R", "S", "T", "U", "V", "W", "X", "Y", "Z">>
LowerLetters == <<"a", "b", "c", "d", "e", "f", "g", "h", "i", "j", "k", "l", "m",
                  "n", "o", "p", "q", "r", "s", "t", "u", "v", "w", "x", "y", "z">>
ToLower(s) ==
    [i \in 1..Len(s) |->
        IF \E k \in 1..26 : UpperLetters[k] = s[i]
          THEN LowerLetters[CHOOSE k \in 1..26 : UpperLetters[k] = s[i]]
          ELSE s[i]]

\* Decimal digits and their values.
DigitChars == <<"0", "1", "2", "3", "4", "5", "6", "7", "8", "9">>
IsDigit(c) == \E k \in 1..10 : DigitChars[k] = c
DigitValue(c) == (CHOOSE k \in 1..10 : DigitChars[k] = c) - 1

RECURSIVE DigitsValue(_)
DigitsValue(ds) ==
    IF ds = <<>> THEN 0
    ELSE DigitsValue(SubSeq(ds, 1, Len(ds) - 1)) * 10 + DigitValue(ds[Len(ds)])

\* strconv.Atoi(s): an optional sign and at least one digit, nothing else.
\* (Texts here are far shorter than what overflows an int.)
Atoi(s) ==
    LET signed == Len(s) > 0 /\ s[1] \in {"+", "-"}
        ds == IF signed THEN Tail(s) ELSE s
    IN IF ds = <<>> \/ \E i \in 1..Len(ds) : ~IsDigit(ds[i])
         THEN [err |-> TRUE, val |-> 0]
         ELSE [err |-> FALSE,
               val |-> IF signed /\ s[1] = "-" THEN 0 - DigitsValue(ds)
                       ELSE DigitsValue(ds)]

\* fmt verb %d
RECURSIVE NatText(_)
NatText(n) ==
    IF n < 10 THEN <<DigitChars[n + 1]>>
    ELSE NatText(n \div 10) \o <<DigitChars[(n % 10) + 1]>>
Itoa(n) == IF n < 0 THEN <<"-">> \o NatText(0 - n) ELSE NatText(n)

\* The markers the probes look for.
Mark302 == <<" ", "3", "0", "2", " ">>
Mark101 == <<" ", "1", "0", "1", " ">>
PrefixLocation == <<"L", "o", "c", "a", "t", "i", "o", "n">>
PrefixServer == <<"S", "e", "r", "v", "e", "r">>
SepDashes == <<" ", "-", "-", " ">>

\* Response lines a peer may send (scanner.Text() values).
LineEmpty == <<>>
Line200 == <<"H", " ", "2", "0", "0", " ", "O", "K">>
Line101 == <<"H", " ", "1", "0", "1", " ", "S", "P">>
Line302 == <<"H", " ", "3", "0", "2", " ", "F">>
Line302Bare == <<"H", " ", "3", "0", "2">>
Line101And302 == <<"H", " ", "1", "0", "1", " ", "3", "0", "2", " ">>
LineLocation == <<"L", "o", "c", "a", "t", "i", "o", "n", ":", " ", "/">>
LineServer == <<"S", "e", "r", "v", "e", "r", ":", " ", "n">>
LineDate == <<"D", "a", "t", "e", ":", " ", "x">>
Lines == {LineEmpty, Line200, Line101, Line302, Line302Bare, Line101And302,
          LineLocation, LineServer, LineDate}

\* proxyHostPort of the target under probe, its resolved ip and its domain.
HostPort == <<"p", ":", "8", "0">>
PeerIP == <<"1", ".", "2">>
Domain == <<"d", ".", "e">>

\* Outcomes of one net.DialTimeout call: err == nil, a connect timeout, a
\* *net.DNSError, a *net.DNSError whose Timeout() is true, the syscall error
\* "network is unreachable", any other error.
DialOutcomes == {"ok", "timeout", "dns", "dnsTimeout", "unreachable", "other"}

Kinds == {"relay", "sni", "cdn", "direct"}

\* if dialCount > 3 { return }
DialLimitReachedOffByOne(n) == n >= 3
DialLimitReached(n) == n > 3

\* scanProxy's handling of a dial result: DNS errors first, then timeouts.
ProxyDialDecisionTimeoutFirst(o) ==
    IF o = "ok" THEN "proceed"
    ELSE IF o \in {"timeout", "dnsTimeout"} THEN "retry"
    ELSE "giveup"
ProxyDialDecision(o) ==
    IF o = "ok" THEN "proceed"
    ELSE IF o \in {"dns", "dnsTimeout"} THEN "giveup"
    ELSE IF o = "timeout" THEN "retry"
    ELSE IF o = "unreachable" THEN "giveup"
    ELSE "giveup"

\* scanSNI's handling of a dial result: retry whenever err.Timeout().
SniDialDecisionRetryAny(o) ==
    IF o = "ok" THEN "proceed" ELSE "retry"
SniDialDecision(o) ==
    IF o = "ok" THEN "proceed"
    ELSE IF o \in {"timeout", "dnsTimeout"} THEN "retry"
    ELSE "giveup"

\* scanCdnSsl's handling of a dial result.
CdnDialDecision(o) ==
    IF o = "ok" THEN "proceed"
    ELSE IF o \in {"timeout", "dnsTimeout"} THEN "retry"
    ELSE IF o = "unreachable" THEN "giveup"
    ELSE "giveup"

DialDecision(k, o) ==
    IF k = "relay" THEN ProxyDialDecision(o)
    ELSE IF k = "sni" THEN SniDialDecision(o)
    ELSE CdnDialDecision(o)

\* scanProxy's verdict on the captured lines: "false" (nothing captured),
\* "redirect" (first line has " 302 ": chanResult <- true, no record),
\* "success".
ProxyVerdictNo302Check(lines) ==
    IF Len(lines) = 0 THEN "false" ELSE "success"
ProxyVerdict101AsRedirect(lines) ==
    IF Len(lines) = 0 THEN "false"
    ELSE IF Contains(lines[1], Mark302) \/ Contains(lines[1], Mark101)
         THEN "redirect"
    ELSE "success"
ProxyVerdict(lines) ==
    IF Len(lines) = 0 THEN "false"
    ELSE IF Contains(lines[1], Mark302) THEN "redirect"
    ELSE "success"

\* scanCdnSsl's verdict: "logonly" unless the first line has " 101 ".
CdnVerdictLikeRelay(lines) ==
    IF Len(lines) = 0 \/ Contains(lines[1], Mark302) THEN "logonly"
    ELSE "success"
CdnVerdictLastLine(lines) ==
    IF Len(lines) = 0 \/ ~Contains(lines[Len(lines)], Mark101) THEN "logonly"
    ELSE "success"
CdnVerdict(lines) ==
    IF Len(lines) = 0 \/ ~Contains(lines[1], Mark101) THEN "logonly"
    ELSE "success"

\* fmt.Sprintf("%-32s %s", proxyHostPort, strings.Join(responseLines, " -- "))
ProxyFormat(hp, lines) == PadRight(hp, 32) \o Sp \o Join(lines, SepDashes)

\* fmt.Sprintf("%-32s  %s", proxyHostPort, strings.Join(responseLines, " -- "))
CdnFormat(hp, lines) == PadRight(hp, 32) \o Sp \o Sp \o Join(lines, SepDashes)

\* fmt.Sprintf("%-16s %-20s", ip, domain)
SniFormat(ip, d) == PadRight(ip, 16) \o Sp \o PadRight(d, 20)

CapturedAlways(first, line) == TRUE

\* The line is kept when it is the first one or a Location/Server header.
Captured(first, line) ==
    first \/ HasPrefix(line, PrefixLocation) \/ HasPrefix(line, PrefixServer)

\* ------------------------------------------- direct-probe response parsing
NoHeaders == [statusCode |-> 0, server |-> <<>>, location |-> <<>>]

\* parts := strings.Fields(lines[0]); the Atoi of parts[1] when there are
\* two parts and it parses, else the zero value.
StatusCodeOfFirstToken(line) ==
    LET parts == Fields(line) IN
    IF Len(parts) >= 2
      THEN LET a == Atoi(parts[1]) IN IF a.err THEN 0 ELSE a.val
      ELSE 0
StatusCodeOf(line) ==
    LET parts == Fields(line) IN
    IF Len(parts) >= 2
      THEN LET a == Atoi(parts[2]) IN IF a.err THEN 0 ELSE a.val
      ELSE 0

PrefixServerColon == <<"s", "e", "r", "v", "e", "r", ":">>
PrefixLocationColon == <<"l", "o", "c", "a", "t", "i", "o", "n", ":">>

\* The body of the header loop for one trimmed, non-empty line:
\* server = TrimSpace(line[7:]) / location = TrimSpace(line[9:]).
HeaderStep(acc, line) ==
    IF HasPrefix(ToLower(line), PrefixServerColon)
      THEN [acc EXCEPT !.server = TrimSpace(SubSeq(line, 8, Len(line)))]
    ELSE IF HasPrefix(ToLower(line), PrefixLocationColon)
      THEN [acc EXCEPT !.location = TrimSpace(SubSeq(line, 10, Len(line)))]
    ELSE acc

\* for _, line := range lines[1:] { line = TrimSpace(line); if line == ""
\* { break }; ... }
RECURSIVE HeaderLoop(_, _, _)
HeaderLoop(lines, i, acc) ==
    IF i > Len(lines) THEN acc
    ELSE LET line == TrimSpace(lines[i]) IN
         IF line = <<>> THEN acc
         ELSE HeaderLoop(lines, i + 1, HeaderStep(acc, line))

extractHTTPHeaders(resp) ==
    LET lines == SplitNewline(resp)
        h == HeaderLoop(lines, 2, NoHeaders)
    IN [statusCode |-> StatusCodeOf(lines[1]),
        server |-> h.server,
        location |-> h.location]

\* Lines a server may answer with (without the "\n" that ends them).
StatusOK == <<"H", " ", "2", "0", "0", " ", "O", "K", "\r">>
StatusBare == <<"H">>
StatusWord == <<"H", " ", "2", "x">>
StatusSigned == <<"H", " ", " ", "-", "7">>
HdrServerA == <<"S", "e", "r", "v", "e", "r", ":", " ", "a", "\r">>
HdrServerB == <<"s", "E", "R", "V", "E", "R", ":", "b">>
HdrLocationX == <<"L", "o", "c", "a", "t", "i", "o", "n", ":", " ", "/", "x", "\r">>
HdrLocationY == <<"l", "o", "c", "a", "t", "i", "o", "n", ":", "/", "y">>
HdrDate == <<"D", "a", "t", "e", ":", " ", "z">>
HdrBlank == <<"\r">>
ParseLines == {StatusOK, StatusBare, StatusWord, StatusSigned, HdrServerA,
               HdrServerB, HdrLocationX, HdrLocationY, HdrDate, HdrBlank}

Newline == <<"\n">>

\* Every buffer of at most MaxResponseLines such lines; the empty buffer too.
Responses ==
    {Join(ls, Newline) :
        ls \in UNION {[1..k -> ParseLines] : k \in 0..MaxResponseLines}}

\* The buffers the direct probe reads in the probe specification.
DirectResponses ==
    {Join(<<StatusOK, HdrServerA, HdrBlank>>, Newline),
     Join(<<StatusOK, HdrLocationX, HdrBlank>>, Newline),
     Join(<<StatusOK, HdrServerB, HdrLocationY>>, Newline),
     StatusBare}

\* Values of the --skip flag: none, and two locations.
HideValues == {<<>>, <<"/", "x">>, <<"/", "y">>}

\* if directFlagHideLocation != "" && location == directFlagHideLocation
SuppressedAlsoEmpty(h, loc) == loc = h
Suppressed(h, loc) == h # <<>> /\ loc = h

\* if err != nil { continue } after conn.Read.
DirectReadDecisionIgnoreErr(err) == "parse"
DirectReadDecision(err) == IF err THEN "continue" ELSE "parse"

\* The ports of --port, by position.
PortNames == << <<"8", "0">>, <<"4", "4", "3">>, <<"8", "0", "8", "0">>,
                <<"8", "4", "4", "3">> >>
PortText(i) == PortNames[((i - 1) % 4) + 1]

\* fmt.Sprintf("%-15s  %-3d   %-16s    %s", ipStr, statusCode, server,
\* hostWithPort) with hostWithPort = host + ":" + port.
DirectFormat(ip, code, server, host, port) ==
    PadRight(ip, 15) \o Sp \o Sp \o PadRight(Itoa(code), 3) \o Sp \o Sp \o Sp
        \o PadRight(server, 16) \o Sp \o Sp \o Sp \o Sp \o host \o <<":">> \o port

\* conn.Close()
AfterCloseLeak(c) == c
AfterClose(c) == "closed"

\* The connection closed is the one the invocation opened last.
CloseLast(cs) == [cs EXCEPT ![Len(cs)] = AfterClose(@)]

\* ----------------------------------------------------------- probe init
\* No probe is running (the engine specification).
ProbeIdle ==
    /\ kind = "none"
    /\ ppc = "idle"
    /\ dialCount = 0
    /\ dials = <<>>
    /\ conn = "none"
    /\ handshook = FALSE
    /\ timerFired = FALSE
    /\ selected = "none"
    /\ xpc = "none"
    /\ written = FALSE
    /\ scanned = <<>>
    /\ isPrefix = TRUE
    /\ responseLines = <<>>
    /\ chanVal = "none"
    /\ results = <<>>
    /\ logged = <<>>
    /\ conns = <<>>
    /\ hide = <<>>
    /\ ports = 0
    /\ portIdx = 0
    /\ response = <<>>
    /\ parsed = NoHeaders
    /\ attempts = <<>>
    /\ arg = <<>>
    /\ locals = <<>>
    /\ ret = <<>>

\* A worker has just entered the probe function with a fresh context.
ProbeInit ==
    /\ EngineInit
    /\ threads = 1
    /\ kind \in Kinds
    /\ ppc = IF kind = "direct" THEN "parsePorts" ELSE "dial"
    /\ dialCount = 0
    /\ dials = <<>>
    /\ conn = "none"
    /\ handshook = FALSE
    /\ timerFired = FALSE
    /\ selected = "none"
    /\ xpc = "none"
    /\ written = FALSE
    /\ scanned = <<>>
    /\ isPrefix = TRUE
    /\ responseLines = <<>>
    /\ chanVal = "none"
    /\ results = <<>>
    /\ logged = <<>>
    /\ conns = <<>>
    /\ hide \in IF kind = "direct" THEN HideValues ELSE {<<>>}
    /\ ports \in IF kind = "direct" THEN 0..MaxPorts ELSE {0}
    /\ portIdx = 0
    /\ response = <<>>
    /\ parsed = NoHeaders
    /\ attempts = <<>>
    /\ arg = <<>>
    /\ locals = <<>>
    /\ ret = <<>>

\* --------------------------------------------------- the probe function
\* One iteration of the connect loop: dialCount++, the ceiling check, the
\* net.DialTimeout call and the decision on its result.  Every return
\* runs the deferred conn.Close() of a connection that was opened.
ProbeDial ==
    /\ ppc = "dial"
    /\ dialCount' = dialCount + 1
    /\ IF DialLimitReached(dialCount + 1)
         THEN /\ ppc' = "returned"
              /\ UNCHANGED <<dials, conn, conns>>
         ELSE \E o \in DialOutcomes :
              /\ dials' = Append(dials, o)
              /\ LET d == DialDecision(kind, o) IN
                 /\ ppc' = IF d = "retry" THEN "dial"
                           ELSE IF d = "giveup" THEN "returned"
                           ELSE IF kind = "relay" THEN "spawn"
                           ELSE "handshake"
                 /\ conn' = IF d = "proceed" THEN "open" ELSE conn
                 /\ conns' = IF d = "proceed" THEN Append(conns, "open")
                             ELSE conns
    /\ UNCHANGED <<ectl, uvars, dvars, ScanComplete, ScanSuccessCount, kind, handshook, timerFired,
                   selected, xpc, written, scanned, isPrefix, responseLines,
                   chanVal, results, logged>>

ProbeHandshakeErrIgnored ==
    /\ ppc = "handshake"
    /\ \E ok \in BOOLEAN :
          /\ handshook' = ok
          /\ IF kind = "sni"
               THEN /\ ppc' = "returned"
                    /\ conn' = AfterClose(conn)
                    /\ conns' = CloseLast(conns)
               ELSE /\ ppc' = "spawn"
                    /\ UNCHANGED <<conn, conns>>
    /\ UNCHANGED <<results, logged, ScanSuccessCount>>
    /\ UNCHANGED <<ectl, uvars, dvars, ScanComplete, kind, dialCount, dials, timerFired, selected, xpc,
                   written, scanned, isPrefix, responseLines, chanVal>>

\* tls.Client + HandshakeContext under its own timeout.  scanSNI records
\* the success and returns; scanCdnSsl goes on to the exchange.
ProbeHandshake ==
    /\ ppc = "handshake"
    /\ \E ok \in BOOLEAN :
        IF ~ok
          THEN /\ ppc' = "returned"
               /\ conn' = AfterClose(conn)
               /\ conns' = CloseLast(conns)
               /\ UNCHANGED <<handshook, results, logged, ScanSuccessCount>>
          ELSE /\ handshook' = TRUE
               /\ IF kind = "sni"
                    THEN /\ results' = Append(results, SniFormat(PeerIP, Domain))
                         /\ ScanSuccessCount' = ScanSuccessAdd(ScanSuccessCount)
                         /\ logged' = Append(logged, SniFormat(PeerIP, Domain))
                         /\ ppc' = "returned"
                         /\ conn' = AfterClose(conn)
                         /\ conns' = CloseLast(conns)
                    ELSE /\ ppc' = "spawn"
                         /\ UNCHANGED <<results, logged, ScanSuccessCount, conn,
                                        conns>>
    /\ UNCHANGED <<ectl, uvars, dvars, ScanComplete, kind, dialCount, dials, timerFired, selected, xpc,
                   written, scanned, isPrefix, responseLines, chanVal>>

\* context.WithTimeout(10s), make(chan bool), go func() {...}().
ProbeSpawn ==
    /\ ppc = "spawn"
    /\ ppc' = "select"
    /\ xpc' = "write"
    /\ UNCHANGED <<ectl, uvars, dvars, ScanComplete, ScanSuccessCount, kind, dialCount, dials, conn, conns,
                   handshook, timerFired, selected, written, scanned, isPrefix,
                   responseLines, chanVal, results, logged>>

\* The result timer expires while the probe waits in its select.
TimerFire ==
    /\ ppc = "select"
    /\ ~timerFired
    /\ timerFired' = TRUE
    /\ UNCHANGED <<ectl, uvars, dvars, ScanComplete, ScanSuccessCount, kind, ppc, dialCount, dials, conn, conns,
                   handshook, selected, xpc, written, scanned, isPrefix,
                   responseLines, chanVal, results, logged>>

\* select: case <-chanResult.  The exchange's send completes.
SelectResult ==
    /\ ppc = "select"
    /\ xpc = "send"
    /\ selected' = "result"
    /\ ppc' = "returned"
    /\ xpc' = "done"
    /\ conn' = AfterClose(conn)
    /\ conns' = CloseLast(conns)
    /\ UNCHANGED <<ectl, uvars, dvars, ScanComplete, ScanSuccessCount, kind, dialCount, dials, handshook,
                   timerFired, written, scanned, isPrefix, responseLines,
                   chanVal, results, logged>>

SelectTimeoutCaseMissing == FALSE /\ UNCHANGED vars

\* select: case <-ctxResultTimeout.Done().  The exchange is left running.
SelectTimeout ==
    /\ ppc = "select"
    /\ timerFired
    /\ selected' = "timeout"
    /\ ppc' = "returned"
    /\ conn' = AfterClose(conn)
    /\ conns' = CloseLast(conns)
    /\ UNCHANGED <<ectl, uvars, dvars, ScanComplete, ScanSuccessCount, kind, dialCount, dials, handshook,
                   timerFired, xpc, written, scanned, isPrefix, responseLines,
                   chanVal, results, logged>>

\* ------------------------------------------- the detached exchange goroutine
\* Render the payload and conn.Write it.  A write on a closed connection
\* fails.  On failure scanProxy offers false on chanResult; scanCdnSsl
\* just returns.
ExchangeWrite ==
    /\ xpc = "write"
    /\ \E ok \in BOOLEAN :
        /\ ok => conn = "open"
        /\ written' = ok
        /\ xpc' = IF ok THEN "read" ELSE IF kind = "relay" THEN "send" ELSE "done"
        /\ chanVal' = IF ~ok /\ kind = "relay" THEN "false" ELSE chanVal
    /\ UNCHANGED <<ectl, uvars, dvars, ScanComplete, ScanSuccessCount, kind, ppc, dialCount, dials, conn, conns,
                   handshook, timerFired, selected, scanned, isPrefix,
                   responseLines, results, logged>>

\* One scanner.Scan(): false (end of input, read error, connection closed
\* with nothing buffered) ends the loop; an empty line breaks out of it;
\* any other line is kept if it is the first or a Location/Server line.
\* After the connection is closed only lines the scanner had already
\* buffered by an earlier read can still be delivered.
ExchangeScan ==
    /\ xpc = "read"
    /\ \/ /\ xpc' = "classify"
          /\ UNCHANGED <<scanned, isPrefix, responseLines>>
       \/ /\ Len(scanned) < MaxLines
          /\ conn = "open" \/ scanned # <<>>
          /\ \E line \in Lines :
              /\ scanned' = Append(scanned, line)
              /\ IF line = LineEmpty
                   THEN /\ xpc' = "classify"
                        /\ UNCHANGED <<isPrefix, responseLines>>
                   ELSE /\ xpc' = "read"
                        /\ IF Captured(isPrefix, line)
                             THEN /\ isPrefix' = FALSE
                                  /\ responseLines' = Append(responseLines, line)
                             ELSE UNCHANGED <<isPrefix, responseLines>>
    /\ UNCHANGED <<ectl, uvars, dvars, ScanComplete, ScanSuccessCount, kind, ppc, dialCount, dials, conn, conns,
                   handshook, timerFired, selected, written, chanVal, results,
                   logged>>

\* The statements after the read loop, up to the goroutine's next blocking
\* point: the verdict, c.ScanSuccess, c.Log, and the send on chanResult.
ExchangeClassify ==
    /\ xpc = "classify"
    /\ IF kind = "relay"
         THEN LET v == ProxyVerdict(responseLines)
                  r == ProxyFormat(HostPort, responseLines) IN
              /\ xpc' = "send"
              /\ chanVal' = IF v = "false" THEN "false" ELSE "true"
              /\ IF v = "success"
                   THEN /\ results' = Append(results, r)
                        /\ ScanSuccessCount' = ScanSuccessAdd(ScanSuccessCount)
                        /\ logged' = Append(logged, r)
                   ELSE UNCHANGED <<results, ScanSuccessCount, logged>>
         ELSE LET v == CdnVerdict(responseLines)
                  r == CdnFormat(HostPort, responseLines) IN
              /\ logged' = Append(logged, r)
              /\ IF v = "success"
                   THEN /\ results' = Append(results, r)
                        /\ ScanSuccessCount' = ScanSuccessAdd(ScanSuccessCount)
                        /\ xpc' = "send"
                        /\ chanVal' = "true"
                   ELSE /\ xpc' = "done"
                        /\ UNCHANGED <<results, ScanSuccessCount, chanVal>>
    /\ UNCHANGED <<ectl, uvars, dvars, ScanComplete, kind, ppc, dialCount, dials, conn, conns, handshook,
                   timerFired, selected, written, scanned, isPrefix,
                   responseLines>>

\* ------------------------------------------------------ the direct probe
\* An entry of the history: what happened (which call failed, or "read"
\* for a response read without error) and the Location of that response.
Event(e, loc) == [ev |-> e, loc |-> loc]

\* Where the range loop over ports goes after the iteration at position i.
DirectNextPort(i) == IF i < ports THEN "dialport" ELSE "returned"

\* ports, err := parsePorts(directFlagPort); if err != nil { return }
DirectParsePorts ==
    /\ kind = "direct"
    /\ ppc = "parsePorts"
    /\ IF ports = 0
         THEN /\ ppc' = "returned"
              /\ attempts' = Append(attempts, Event("portsErr", <<>>))
         ELSE /\ ppc' = "lookup"
              /\ UNCHANGED attempts
    /\ UNCHANGED <<ectl, uvars, ScanComplete, ScanSuccessCount, kind, dialCount, dials,
                   conn, handshook, timerFired, selected, xpc, written, scanned,
                   isPrefix, responseLines, chanVal, results, logged, conns,
                   hide, ports, portIdx, response, parsed>>

\* ips, err := LookupIP(ctx, "ip4", host) under the DNS timeout;
\* if err != nil || len(ips) == 0 { return }
DirectLookup ==
    /\ kind = "direct"
    /\ ppc = "lookup"
    /\ \E ok \in BOOLEAN :
          IF ok
            THEN /\ ppc' = DirectNextPort(0)
                 /\ portIdx' = 1
                 /\ UNCHANGED attempts
            ELSE /\ ppc' = "returned"
                 /\ attempts' = Append(attempts, Event("dnsErr", <<>>))
                 /\ UNCHANGED portIdx
    /\ UNCHANGED <<ectl, uvars, ScanComplete, ScanSuccessCount, kind, dialCount, dials,
                   conn, handshook, timerFired, selected, xpc, written, scanned,
                   isPrefix, responseLines, chanVal, results, logged, conns,
                   hide, ports, response, parsed>>

\* dialer.Dial / tls.DialWithDialer for the port; if err != nil { continue }
DirectDial ==
    /\ kind = "direct"
    /\ ppc = "dialport"
    /\ \E o \in {"ok", "timeout", "other"} :
          IF o = "ok"
            THEN /\ conn' = "open"
                 /\ conns' = Append(conns, "open")
                 /\ ppc' = "request"
                 /\ UNCHANGED <<attempts, portIdx>>
            ELSE /\ attempts' = Append(attempts,
                        Event(IF o = "timeout" THEN "dialTimeout"
                              ELSE "dialErr", <<>>))
                 /\ ppc' = DirectNextPort(portIdx)
                 /\ portIdx' = portIdx + 1
                 /\ UNCHANGED <<conn, conns>>
    /\ UNCHANGED <<ectl, uvars, ScanComplete, ScanSuccessCount, kind, dialCount, dials,
                   handshook, timerFired, selected, xpc, written, scanned,
                   isPrefix, responseLines, chanVal, results, logged, hide,
                   ports, response, parsed>>

\* conn.SetDeadline; conn.Write(httpRequest);
\* if err != nil { conn.Close(); continue }
DirectWrite ==
    /\ kind = "direct"
    /\ ppc = "request"
    /\ \E ok \in BOOLEAN :
          IF ok
            THEN /\ ppc' = "read"
                 /\ UNCHANGED <<conn, conns, attempts, portIdx>>
            ELSE /\ conn' = AfterClose(conn)
                 /\ conns' = CloseLast(conns)
                 /\ attempts' = Append(attempts, Event("writeErr", <<>>))
                 /\ ppc' = DirectNextPort(portIdx)
                 /\ portIdx' = portIdx + 1
    /\ UNCHANGED <<ectl, uvars, ScanComplete, ScanSuccessCount, kind, dialCount, dials,
                   handshook, timerFired, selected, xpc, written, scanned,
                   isPrefix, responseLines, chanVal, results, logged, hide,
                   ports, response, parsed>>

\* n, err := conn.Read(buffer); conn.Close(); if err != nil { continue };
\* extractHTTPHeaders; the --skip test; c.ScanSuccess(formatted);
\* c.Log(formatted); the next port.
DirectRead ==
    /\ kind = "direct"
    /\ ppc = "read"
    /\ conn' = AfterClose(conn)
    /\ conns' = CloseLast(conns)
    /\ ppc' = DirectNextPort(portIdx)
    /\ portIdx' = portIdx + 1
    /\ \E err \in BOOLEAN : \E r \in DirectResponses :
          LET h == extractHTTPHeaders(r)
              line == DirectFormat(PeerIP, h.statusCode, h.server, Domain,
                                   PortText(portIdx))
          IN
          /\ attempts' = Append(attempts,
                 IF err THEN Event("readErr", <<>>)
                 ELSE Event("read", h.location))
          /\ IF DirectReadDecision(err) = "continue"
               THEN UNCHANGED <<response, parsed, results, logged,
                                ScanSuccessCount>>
               ELSE /\ response' = r
                    /\ parsed' = h
                    /\ IF Suppressed(hide, h.location)
                         THEN UNCHANGED <<results, logged, ScanSuccessCount>>
                         ELSE /\ results' = Append(results, line)
                              /\ ScanSuccessCount' =
                                     ScanSuccessAdd(ScanSuccessCount)
                              /\ logged' = Append(logged, line)
    /\ UNCHANGED <<ectl, uvars, ScanComplete, kind, dialCount, dials, handshook,
                   timerFired, selected, xpc, written, scanned, isPrefix,
                   responseLines, chanVal, hide, ports>>

\* ------------------------------------------------- back in the worker loop
\* The probe function has returned to run():
\* atomic.AddInt64(&s.ctx.ScanComplete, 1); s.ctx.LogReplace(a.Name).
ProbeCounted ==
    /\ ppc = "returned"
    /\ ppc' = "counted"
    /\ ScanComplete' = ScanCompleteAdd(ScanComplete)
    /\ UNCHANGED <<ectl, uvars, ScanSuccessCount, kind, dialCount, dials, conn,
                   handshook, timerFired, selected, xpc, written, scanned,
                   isPrefix, responseLines, chanVal, results, logged, conns,
                   dvars>>

ProbeNext ==
    \/ ProbeDial
    \/ ProbeHandshake
    \/ ProbeSpawn
    \/ TimerFire
    \/ SelectResult
    \/ SelectTimeout
    \/ ExchangeWrite
    \/ ExchangeScan
    \/ ExchangeClassify
    \/ DirectParsePorts
    \/ DirectLookup
    \/ DirectDial
    \/ DirectWrite
    \/ DirectRead
    \/ ProbeCounted

ProbeSpec == ProbeInit /\ [][ProbeNext]_vars

\* Scheduling: every blocking call of the probe function has its own
\* timeout (dial, handshake, the direct probe's deadlines) and the result
\* timer does fire, so the probe function always takes its next step; the
\* exchange goroutine's write and its statements after the read loop return
\* too.  A read has no deadline: it is only sure to return once the
\* connection is closed.  A send on chanResult goes through only by
\* SelectResult.
ProbeFairSpec ==
    /\ ProbeSpec
    /\ WF_vars(ProbeDial)
    /\ WF_vars(ProbeHandshake)
    /\ WF_vars(ProbeSpawn)
    /\ WF_vars(TimerFire)
    /\ WF_vars(SelectResult \/ SelectTimeout)
    /\ WF_vars(ExchangeWrite)
    /\ WF_vars(conn # "open" /\ ExchangeScan)
    /\ WF_vars(ExchangeClassify)
    /\ WF_vars(DirectParsePorts \/ DirectLookup \/ DirectDial \/ DirectWrite
                  \/ DirectRead)
    /\ WF_vars(ProbeCounted)

\* ------------------------------------------- the parser on its own
\* extractHTTPHeaders is about to be called on some buffer.
ParseInit ==
    /\ EngineInit
    /\ threads = 1
    /\ kind = "direct"
    /\ ppc = "parse"
    /\ dialCount = 0
    /\ dials = <<>>
    /\ conn = "none"
    /\ handshook = FALSE
    /\ timerFired = FALSE
    /\ selected = "none"
    /\ xpc = "none"
    /\ written = FALSE
    /\ scanned = <<>>
    /\ isPrefix = TRUE
    /\ responseLines = <<>>
    /\ chanVal = "none"
    /\ results = <<>>
    /\ logged = <<>>
    /\ conns = <<>>
    /\ hide = <<>>
    /\ ports = 0
    /\ portIdx = 0
    /\ response \in Responses
    /\ parsed = NoHeaders
    /\ attempts = <<>>
    /\ arg = <<>>
    /\ locals = <<>>
    /\ ret = <<>>

\* statusCode, server, location := extractHTTPHeaders(response)
ParseApply ==
    /\ ppc = "parse"
    /\ parsed' = extractHTTPHeaders(response)
    /\ ppc' = "parsed"
    /\ UNCHANGED <<ectl, uvars, ScanComplete, ScanSuccessCount, kind, dialCount, dials,
                   conn, handshook, timerFired, selected, xpc, written, scanned,
                   isPrefix, responseLines, chanVal, results, logged, conns,
                   hide, ports, portIdx, response, attempts>>

ParseNext == ParseApply

ParseSpec == ParseInit /\ [][ParseNext]_vars


\* ------------------------------------------- helper functions on their own
\* The rest of the state while a helper function is called on its own: no
\* engine running, no probe under way.
HelperRest ==
    /\ EngineInit
    /\ threads = 1
    /\ dialCount = 0
    /\ dials = <<>>
    /\ conn = "none"
    /\ handshook = FALSE
    /\ timerFired = FALSE
    /\ selected = "none"
    /\ xpc = "none"
    /\ written = FALSE
    /\ scanned = <<>>
    /\ isPrefix = TRUE
    /\ responseLines = <<>>
    /\ chanVal = "none"
    /\ results = <<>>
    /\ logged = <<>>
    /\ conns = <<>>
    /\ hide = <<>>
    /\ ports = 0
    /\ portIdx = 0
    /\ response = <<>>
    /\ parsed = NoHeaders
    /\ attempts = <<>>
    /\ ret = <<>>

\* Everything a helper call leaves alone.
HelperFrame ==
    UNCHANGED <<ectl, ScanComplete, ScanSuccessCount, kind, dialCount, dials,
                conn, handshook, timerFired, selected, xpc, written, scanned,
                isPrefix, responseLines, chanVal, results, logged, conns,
                dvars, arg>>

\* ------------------------------------------------------ payload rendering
\* strings.ReplaceAll(s, old, new) for a non-empty old: the matches found
\* left to right, not overlapping; the replacement is not scanned again.
RECURSIVE ReplaceAll(_, _, _)
ReplaceAll(s, old, new) ==
    IF Len(s) < Len(old) THEN s
    ELSE IF SubSeq(s, 1, Len(old)) = old
      THEN new \o ReplaceAll(SubSeq(s, Len(old) + 1, Len(s)), old, new)
    ELSE <<Head(s)>> \o ReplaceAll(Tail(s), old, new)

\* The placeholder tokens.
TokenText ==
    [method |-> <<"[", "m", "e", "t", "h", "o", "d", "]">>,
     path |-> <<"[", "p", "a", "t", "h", "]">>,
     scheme |-> <<"[", "s", "c", "h", "e", "m", "e", "]">>,
     protocol |-> <<"[", "p", "r", "o", "t", "o", "c", "o", "l", "]">>,
     bug |-> <<"[", "b", "u", "g", "]">>,
     host |-> <<"[", "h", "o", "s", "t", "]">>,
     crlf |-> <<"[", "c", "r", "l", "f", "]">>]

\* The order of the ReplaceAll calls: getScanProxyPayloadDecoded, then the
\* two in scanProxy's goroutine; getScanCdnSslPayloadDecoded, then the two
\* in scanCdnSsl's goroutine.
ProxyOrder == <<"method", "path", "protocol", "bug", "host", "crlf">>
CdnOrder == <<"method", "path", "scheme", "protocol", "bug", "host", "crlf">>
CodeOrder(k) == IF k = "relay" THEN ProxyOrder ELSE CdnOrder

\* payload = strings.ReplaceAll(payload, token, value), one token after the
\* other in the given order.
RECURSIVE SubstituteAll(_, _, _)
SubstituteAll(payload, vals, order) ==
    IF order = <<>> THEN payload
    ELSE SubstituteAll(ReplaceAll(payload, TokenText[Head(order)],
                                  vals[Head(order)]),
                       vals, Tail(order))

\* The default of --path of the CDN-TLS command.
DefaultCdnPath == TokenText.scheme \o TokenText.bug

\* Flag values and per-target values; [crlf] is always "\r\n".
PayloadValues ==
    {[method |-> <<"G">>, path |-> pa, scheme |-> <<"w">>, protocol |-> pr,
      bug |-> b, host |-> <<"t">>, crlf |-> <<"\r", "\n">>] :
        pa \in {<<"/">>, DefaultCdnPath},
        pr \in {<<"P">>, TokenText.method},
        b \in {<<"b">>, TokenText.path}}

\* Payload templates: up to MaxTemplatePieces tokens or literal bytes.
TemplatePieces ==
    {TokenText[n] : n \in DOMAIN TokenText} \cup {<<"x">>}
Templates ==
    {Join(ps, <<>>) :
        ps \in UNION {[1..k -> TemplatePieces] : k \in 0..MaxTemplatePieces}}

\* The code's order and the orders that exchange two of its calls.
SwapOrders(o) ==
    {[o EXCEPT ![i] = o[j], ![j] = o[i]] : i \in 1..Len(o), j \in 1..Len(o)}

\* A payload is about to be rendered for the relay or the CDN-TLS probe.
RenderInit ==
    /\ HelperRest
    /\ locals = <<>>
    /\ kind \in {"relay", "cdn"}
    /\ ppc = "render"
    /\ arg \in {[template |-> t, vals |-> v, order |-> o] :
                   t \in Templates, v \in PayloadValues,
                   o \in SwapOrders(CodeOrder(kind))}

\* The rendering, up to the bytes handed to conn.Write.
RenderApply ==
    /\ ppc = "render"
    /\ ret' = SubstituteAll(arg.template, arg.vals, arg.order)
    /\ ppc' = "rendered"
    /\ UNCHANGED locals
    /\ HelperFrame

RenderNext == RenderApply

RenderSpec == RenderInit /\ [][RenderNext]_vars

\* --------------------------------------------------------- CIDR expansion
\* An IPv4 address is 4 bytes; a byte counts modulo 256.  The functions
\* below work, as the code does, on a byte slice of whatever length.
IPv4len == 4
ByteMod == 256

\* The number of mask bits that fall into byte j for a prefix length p.
MaskBits(p, j) ==
    LET b == p - 8 * (j - 1) IN IF b < 0 THEN 0 ELSE IF b > 8 THEN 8 ELSE b

\* ip.Mask(ipnet.Mask): the bytewise AND with the mask of length p.
Mask(ip, p) ==
    [j \in 1..Len(ip) |->
        LET low == 2 ^ (8 - MaskBits(p, j)) IN (ip[j] \div low) * low]

\* ipnet.Contains(ip) for the network of address n and prefix length p.
NetContains(n, p, ip) == Mask(ip, p) = n

\* ipInc: ip[j]++ from the last byte on, going left while the byte wrapped
\* to 0.
RECURSIVE ipIncFrom(_, _)
ipIncFrom(ip, j) ==
    IF j = 0 THEN ip
    ELSE LET b == (ip[j] + 1) % ByteMod
             next == [ip EXCEPT ![j] = b]
         IN IF b > 0 THEN next ELSE ipIncFrom(next, j - 1)

ipIncNoCarry(ip) == [ip EXCEPT ![Len(ip)] = (@ + 1) % ByteMod]
ipInc(ip) == ipIncFrom(ip, Len(ip))

\* net.IP.String() of a 4-byte address: dotted decimal.
IPString(ip) == Join([j \in 1..Len(ip) |-> Itoa(ip[j])], <<".">>)

\* if len(ips) <= 1 { return ips }; return ips[1 : len(ips)-1]
TrimEnds(ips) == IF Len(ips) <= 1 THEN ips ELSE SubSeq(ips, 2, Len(ips) - 1)

\* What net.ParseCIDR accepted: an address (host bits may be set) and a
\* prefix length leaving at most MaxHostBits host bits.
CidrAddresses ==
    {<<192, 168, 1, 0>>, <<10, 0, 0, 5>>, <<255, 255, 255, 255>>,
     <<172, 16, 255, 128>>}
CidrInputs ==
    {[ip |-> a, prefix |-> p] :
        a \in CidrAddresses, p \in (8 * IPv4len - MaxHostBits)..(8 * IPv4len)}

\* ip, ipnet, err := net.ParseCIDR(cidr) has returned without error;
\* currentIP := ip.Mask(ipnet.Mask).
CidrInit ==
    /\ HelperRest
    /\ kind = "cidr"
    /\ ppc = "cidr_loop"
    /\ arg \in CidrInputs
    /\ locals = [currentIP |-> Mask(arg.ip, arg.prefix), ips |-> <<>>]

\* One turn of the for loop: the condition ipnet.Contains(currentIP), the
\* body ips = append(ips, currentIP.String()), the post statement
\* ipInc(currentIP).
CidrLoop ==
    /\ ppc = "cidr_loop"
    /\ Len(locals.ips) <= 2 ^ MaxHostBits
    /\ IF NetContains(Mask(arg.ip, arg.prefix), arg.prefix, locals.currentIP)
         THEN /\ locals' = [currentIP |-> ipInc(locals.currentIP),
                         ips |-> Append(locals.ips, IPString(locals.currentIP))]
              /\ UNCHANGED ppc
         ELSE /\ ppc' = "cidr_trim"
              /\ UNCHANGED locals
    /\ UNCHANGED ret
    /\ HelperFrame

\* The statements after the loop.
CidrReturn ==
    /\ ppc = "cidr_trim"
    /\ ret' = TrimEnds(locals.ips)
    /\ ppc' = "cidr_done"
    /\ UNCHANGED locals
    /\ HelperFrame

CidrNext == CidrLoop \/ CidrReturn

CidrSpec == CidrInit /\ [][CidrNext]_vars

\* The same loop on one-byte addresses, where a block of every prefix
\* length, 0 included, is small enough to walk through: the address
\* space is 0..255 and ipInc wraps from 255 to 0.
CidrWrapInit ==
    /\ HelperRest
    /\ kind = "cidr1"
    /\ ppc = "cidr_loop"
    /\ arg \in {[ip |-> <<b>>, prefix |-> p] :
                    b \in {0, 77, 128, 255}, p \in 0..8}
    /\ locals = [currentIP |-> Mask(arg.ip, arg.prefix), ips |-> <<>>]

CidrWrapSpec == CidrWrapInit /\ [][CidrNext]_vars

\* ------------------------------------------------------------ bug value
\* regexp.MustCompile(`\d+$`).MatchString(host): the text ends in a digit.
regexpIsIP(host) == Len(host) > 0 /\ IsDigit(host[Len(host)])

\* The bug value of a relay host: the configured one or, without one, the
\* target for a host the expression matches and the host itself otherwise;
\* the target whenever the path is "/".
BugValue(flagBug, flagTarget, flagPath, proxyHost) ==
    LET bug == IF flagBug = <<>>
                 THEN IF regexpIsIP(proxyHost) THEN flagTarget ELSE proxyHost
                 ELSE flagBug
    IN IF flagPath = <<"/">> THEN flagTarget ELSE bug

\* Relay hosts: an IPv4 address, hostnames without and with digits, an
\* IPv6 address.
BugHosts ==
    {<<"1", "0", ".", "0", ".", "0", ".", "7">>, <<"a", ".", "i", "o">>,
     <<"c", "d", "n", "1">>, <<"h", "2", ".", "i", "o">>,
     <<"f", "e", "8", "0", ":", ":", "a">>}

\* The flags --bug, --target and --path together with one relay host.
BugInputs ==
    {[flagBug |-> b, flagTarget |-> t, flagPath |-> q, proxyHost |-> h] :
        b \in {<<>>, <<"b", ".", "i", "o">>},
        t \in {<<"t", ".", "i", "o">>, <<"t", ".", "o", "r", "g">>},
        q \in {<<"/">>, <<"/", "w", "s">>, DefaultCdnPath},
        h \in BugHosts}

BugInit ==
    /\ HelperRest
    /\ kind \in {"relay", "cdn"}
    /\ ppc = "bug"
    /\ arg \in BugInputs
    /\ locals = <<>>

\* The bug computation of one relay host, the same in both scan modes.
BugApply ==
    /\ ppc = "bug"
    /\ ret' = BugValue(arg.flagBug, arg.flagTarget, arg.flagPath,
                       arg.proxyHost)
    /\ ppc' = "bug_done"
    /\ UNCHANGED locals
    /\ HelperFrame

BugSpec == BugInit /\ [][BugApply]_vars

\* ------------------------------------------------------------ LogReplace
\* fmt verb %.2f of float64(complete) / float64(total) * 100 for the
\* small counts that occur here: the hundredths, rounded to nearest.
FormatPercent(complete, total) ==
    LET h == (complete * 20000 + total) \div (2 * total)
    IN Itoa(h \div 100) \o <<".">> \o Itoa((h % 100) \div 10)
           \o Itoa(h % 10)

\* fmt.Sprintf("%.2f%% - C: %d / %d - S: %d - %s", ...) with
\* strings.Join(a, " ") as the last operand.
ProgressLine(complete, total, success, a) ==
    FormatPercent(complete, total) \o <<"%", " ", "-", " ", "C", ":", " ">> \o Itoa(complete)
        \o <<" ", "/", " ">> \o Itoa(total) \o <<" ", "-", " ", "S", ":", " ">> \o Itoa(success)
        \o <<" ", "-", " ">> \o Join(a, <<" ">>)

\* w := termWidth - 3; if len(s) >= w { s = s[:w] + "..." }: slicing with
\* a negative bound panics at run time.
Truncate(s, termWidth) ==
    LET w == termWidth - 3
    IN IF Len(s) >= w
         THEN IF w < 0 THEN [panic |-> TRUE, s |-> s]
              ELSE [panic |-> FALSE,
                    s |-> SubSeq(s, 1, w) \o <<".", ".", ".">>]
         ELSE [panic |-> FALSE, s |-> s]

\* A worker calls LogReplace(a.Name) with the counters as they are; the
\* terminal reports a width, or there is no terminal.
LogInit ==
    /\ HelperRest
    /\ kind = "log"
    /\ ppc = "log"
    /\ locals = <<>>
    /\ \E total \in TargetIds : \E complete \in 0..total :
       \E success \in 0..complete : \E n \in {0, 4, 12} :
       \E width \in 0..MaxWidth : \E err \in {"nil", "notty"} :
          /\ err = "notty" => width = 0
          /\ arg = [total |-> total, complete |-> complete,
                    success |-> success, a |-> <<[i \in 1..n |-> "x"]>>,
                    termWidth |-> width, err |-> err]

\* LogReplace: compose the line, cut it when the terminal size is known,
\* print "\r", "\033[2K", the line and "\r".
LogApply ==
    /\ ppc = "log"
    /\ LET s == ProgressLine(arg.complete, arg.total, arg.success, arg.a)
           cut == IF arg.err = "nil" THEN Truncate(s, arg.termWidth)
                  ELSE [panic |-> FALSE, s |-> s]
       IN ret' = IF cut.panic THEN [panic |-> TRUE, printed |-> <<>>]
                 ELSE [panic |-> FALSE,
                       printed |-> <<"\r", "\\033[2K">> \o cut.s \o <<"\r">>]
    /\ ppc' = "log_done"
    /\ UNCHANGED locals
    /\ HelperFrame

LogSpec == LogInit /\ [][LogApply]_vars

\* ------------------------------------- the direct probe over all addresses
\* scanDirect in the variant that tries every resolved address of its
\* domain.  It has been called with --skip set to arg.hide.
MultiInit ==
    /\ HelperRest
    /\ kind = "multi"
    /\ ppc = "lookupIP"
    /\ arg \in {[hide |-> h] : h \in HideValues}
    /\ locals = [ips |-> 0, i |-> 0]

\* ips, err := net.DefaultResolver.LookupIP(ctx, "ip", req.Domain);
\* if err != nil || len(ips) == 0 { return }
MultiLookupIP ==
    /\ ppc = "lookupIP"
    /\ \E n \in 0..MaxAddrs :
          IF n = 0
            THEN /\ ppc' = "returned"
                 /\ attempts' = Append(attempts, Event("dnsErr", <<>>))
                 /\ UNCHANGED locals
            ELSE /\ ppc' = "tryIP"
                 /\ locals' = [ips |-> n, i |-> 1]
                 /\ UNCHANGED attempts
    /\ UNCHANGED <<ectl, ScanComplete, ScanSuccessCount, kind, dialCount, dials,
                   conn, handshook, timerFired, selected, xpc, written, scanned,
                   isPrefix, responseLines, chanVal, results, logged, conns,
                   hide, ports, portIdx, response, parsed, arg, ret>>

\* One turn of `for _, resolvedIP := range ips`: dial (continue on error),
\* write (close and continue on error), read (close and continue on
\* error), close, parseHTTPResponse, the --skip test (continue), else
\* c.ScanSuccess, c.Log and return.
MultiTryIP ==
    /\ ppc = "tryIP"
    /\ \E o \in {"dialErr", "writeErr", "readErr", "read"} :
       \E r \in DirectResponses :
          LET h == extractHTTPHeaders(r)
              line == PadRight(PeerIP, 15) \o Sp \o Sp
                         \o PadRight(Itoa(h.statusCode), 3) \o Sp \o Sp \o Sp
                         \o PadRight(h.server, 16) \o Sp \o Sp \o Sp \o Sp
                         \o Domain
              skip == arg.hide # <<>> /\ h.location = arg.hide
              continue == o # "read" \/ skip
          IN
          /\ o # "read" => r = StatusBare
          /\ attempts' = Append(attempts,
                 Event(o, IF o = "read" THEN h.location ELSE <<>>))
          /\ conns' = IF o = "dialErr" THEN conns
                      ELSE Append(conns, AfterClose("open"))
          /\ IF o = "read"
               THEN response' = r /\ parsed' = h
               ELSE UNCHANGED <<response, parsed>>
          /\ IF continue
               THEN /\ UNCHANGED <<results, logged, ScanSuccessCount>>
                    /\ locals' = [locals EXCEPT !.i = @ + 1]
                    /\ ppc' = IF locals.i < locals.ips THEN "tryIP"
                              ELSE "returned"
               ELSE /\ results' = Append(results, line)
                    /\ ScanSuccessCount' = ScanSuccessAdd(ScanSuccessCount)
                    /\ logged' = Append(logged, line)
                    /\ UNCHANGED locals
                    /\ ppc' = "returned"
    /\ UNCHANGED <<ectl, ScanComplete, kind, dialCount, dials, conn, handshook,
                   timerFired, selected, xpc, written, scanned, isPrefix,
                   responseLines, chanVal, hide, ports, portIdx, arg, ret>>

MultiSpec == MultiInit /\ [][MultiLookupIP \/ MultiTryIP]_vars

Init == EngineInit /\ ProbeIdle

Spec == Init /\ [][Next]_vars

\* Scheduling of the Go runtime: a goroutine that can take a step eventually
\* takes it, and a caller that has built its list does call Start().  Add is
\* left unfair: the caller may add any number of batches.
FairSpec ==
    /\ Init
    /\ [][Next]_vars
    /\ WF_vars(StartCall)
    /\ WF_vars(StartSend)
    /\ WF_vars(StartClose)
    /\ WF_vars(StartWait)
    /\ WF_vars(StartWake)
    /\ \A w \in 1..MaxThreads : WF_vars(w \in Workers /\ WorkerStep(w))

\* ------------------------------------------------------------------ C1
\* C1: Start() does not return until every enqueued target has been handed
\* to the probe function exactly once and that invocation has returned.
C1_StartReturnsAfterEveryProbe ==
    mpc = "returned" =>
        \A i \in 1..Len(dataList) : invoked[i] = 1 /\ finished[i] = 1

\* ------------------------------------------------------------------ C2
\* C2: for a non-empty target list of length K, in the state in which
\* Start() returns the completed counter equals exactly K.
C2_CompleteEqualsK ==
    (mpc = "returned" /\ Len(dataList) >= 1) => ScanComplete = Len(dataList)

\* ------------------------------------------------------------------ C3
\* C3: for a non-empty target list, in the state in which Start() returns
\* and in every later state, the success counter equals the number of
\* targets whose probe satisfies the success predicate.
C3_SuccessEqualsSatisfying ==
    (mpc = "returned" /\ Len(dataList) >= 1) =>
        ScanSuccessCount = Cardinality({i \in 1..Len(dataList) : dataList[i].ok})

\* ------------------------------------------------------------------ C4
\* C4: every probe invocation returning and the goroutines being scheduled
\* fairly, a Start() that has been called eventually returns.
C4_StartEventuallyReturns ==
    (mpc # "setup") ~> (mpc = "returned")

\* ------------------------------------------------------------------ C5
\* Every dial attempt made so far ended in a connect timeout.
AllDialsTimedOut ==
    Len(dials) >= 1 /\ \A i \in 1..Len(dials) : dials[i] = "timeout"

\* C5: in the relay, SNI and CDN-TLS probes a connect path on which every
\* dial attempt times out is dialed exactly 3 times and then abandoned: no
\* fourth dial, no handshake, no payload exchange, no ScanSuccess call.
C5_TimeoutsDialedThreeTimes ==
    AllDialsTimedOut =>
        /\ Len(dials) <= 3
        /\ ppc \in {"dial", "returned", "counted"}
        /\ ppc \in {"returned", "counted"} => Len(dials) = 3
        /\ conn = "none"
        /\ ~handshook
        /\ xpc = "none"
        /\ ~written
        /\ results = <<>>
        /\ ScanSuccessCount = 0

C5_Witness ==
    AllDialsTimedOut /\ Len(dials) = 3 /\ ppc = "returned" /\ dialCount = 4

\* ------------------------------------------------------------------ C6
\* C6: in the relay probe a response whose first captured line contains
\* " 302 " never leads to a ScanSuccess call, whatever Location or Server
\* lines follow it.
C6_Relay302NeverSuccess ==
    (kind = "relay" /\ Len(responseLines) >= 1
                    /\ Contains(responseLines[1], <<" ", "3", "0", "2", " ">>))
        => (results = <<>> /\ ScanSuccessCount = 0)

C6_Witness ==
    /\ kind = "relay"
    /\ xpc = "done"
    /\ responseLines = <<Line302, LineLocation, LineServer>>

\* ------------------------------------------------------------------ C7
\* C7: in the CDN-TLS probe ScanSuccess is never called unless the first
\* captured line contains " 101 "; an empty capture or any other status is
\* logged only.
C7_CdnSuccessOnly101 ==
    kind = "cdn" =>
        LET has101 == /\ Len(responseLines) >= 1
                      /\ Contains(responseLines[1], <<" ", "1", "0", "1", " ">>)
        IN  /\ (results # <<>> \/ ScanSuccessCount > 0) => has101
            /\ (xpc = "done" /\ written /\ ~has101) =>
                   (results = <<>> /\ ScanSuccessCount = 0 /\ Len(logged) = 1)

C7_Witness ==
    /\ kind = "cdn"
    /\ xpc = "done"
    /\ responseLines = <<Line200, LineServer>>
    /\ Len(logged) = 1

\* ------------------------------------------------------------------ C8
\* C8: in the CDN-TLS probe, once the exchange has read a response whose
\* first line contains " 101 ", exactly one success is recorded for that
\* relay: ScanSuccess is called once with the formatted line.
C8_Cdn101AlwaysSuccess ==
    (kind = "cdn" /\ xpc \in {"send", "done"} /\ Len(responseLines) >= 1
                  /\ Contains(responseLines[1], <<" ", "1", "0", "1", " ">>))
        => /\ Len(results) = 1
           /\ ScanSuccessCount = 1
           /\ HasPrefix(results[1], HostPort)
           /\ Contains(results[1], responseLines[1])

C8_Witness ==
    /\ kind = "cdn"
    /\ responseLines = <<Line101And302, LineLocation>>
    /\ Len(results) = 1
    /\ selected = "timeout"

\* ------------------------------------------------------------------ C9
\* The captured lines joined by " -- ", built from the left.
RECURSIVE C9_Joined(_, _)
C9_Joined(lines, k) ==
    IF k = 0 THEN <<>>
    ELSE IF k = 1 THEN lines[1]
    ELSE C9_Joined(lines, k - 1) \o <<" ", "-", "-", " ">> \o lines[k]

\* C9: in the relay probe, when the exchange captures at least one line and
\* the first does not contain " 302 " (a " 101 " status included),
\* ScanSuccess is called exactly once with the relay host:port and the
\* captured lines joined by " -- "; when no line is captured, ScanSuccess
\* is not called.
C9_RelaySuccessOnceWithJoinedLines ==
    kind = "relay" =>
        IF xpc \in {"send", "done"} /\ Len(responseLines) >= 1
           /\ ~Contains(responseLines[1], <<" ", "3", "0", "2", " ">>)
        THEN /\ Len(results) = 1
             /\ ScanSuccessCount = 1
             /\ HasPrefix(results[1], HostPort)
             /\ \A i \in (Len(HostPort) + 1)..33 : results[1][i] = " "
             /\ SubSeq(results[1], 34, Len(results[1]))
                    = C9_Joined(responseLines, Len(responseLines))
        ELSE (Len(responseLines) = 0 \/ xpc \notin {"send", "done"})
                 => (results = <<>> /\ ScanSuccessCount = 0)

C9_Witness ==
    /\ kind = "relay"
    /\ xpc = "done"
    /\ responseLines = <<Line101, LineServer>>
    /\ Len(results) = 1

\* ----------------------------------------------------------------- C10
\* C10: in the relay and CDN-TLS probes the first of the exchange and the
\* result timer decides the outcome: once the probe has taken the timer
\* branch of its select, no ScanSuccess call happens for that target.
C10_NoSuccessAfterTimeout ==
    [][selected = "timeout" => ScanSuccessCount' = ScanSuccessCount]_vars

\* ----------------------------------------------------------------- C11
\* Workers currently inside a ScanSuccess call, and the targets whose probe
\* invocation has returned.
C11_InScanSuccess ==
    {w \in Workers :
        wpc[w] \in {"ss_lock", "ss_open", "ss_write", "ss_unlock", "ss_add"}}

C11_Finished == {t \in TargetIds : finished[t] >= 1}

\* C11: under every interleaving of the workers no counter increment is
\* lost: the success counter equals the number of ScanSuccess calls that
\* have returned (calls made less calls still running) and the completed
\* counter equals the number of probe invocations that finished and were
\* counted (invocations finished less those whose worker has not yet
\* reached the increment); with every call returned the counters equal
\* the calls made and the invocations finished.
C11_NoIncrementLost ==
    /\ \A t \in TargetIds : finished[t] <= 1
    /\ ScanSuccessCount + Cardinality(C11_InScanSuccess) = ssCalls
    /\ ScanComplete + Cardinality({w \in Workers : wpc[w] = "count"})
          = Cardinality(C11_Finished)

\* Two workers both made a ScanSuccess call, and both calls and both
\* invocations have returned and been counted.
C11_Witness ==
    /\ threads = 2
    /\ ssCalls = 2
    /\ ScanSuccessCount = 2
    /\ ScanComplete = 2
    /\ \A w \in Workers : wcur[w] = NoTarget

\* ----------------------------------------------------------------- C12
\* Workers inside the open-append-close section (between Lock and Unlock).
C12_InSection ==
    {w \in Workers : wpc[w] \in {"ss_open", "ss_write", "ss_unlock"}}

\* C12: at every reachable state at most one worker is inside the
\* open-append-close section of ScanSuccess; a file handle is held only by
\* the worker inside the section, between its open and its close, so never
\* between two calls; and the mutex is held exactly by the worker inside
\* the section, so it is released on every path out of it.
C12_FileSectionSerialized ==
    /\ Cardinality(C12_InSection) <= 1
    /\ \A w \in Workers : (mx = w) <=> (w \in C12_InSection)
    /\ mx \in Workers \cup {0}
    /\ \A w \in Workers : (fileHandle = w) => wpc[w] = "ss_write"
    /\ fileHandle \in Workers \cup {0}

\* One worker holds the open file while the other waits for the mutex.
C12_Witness ==
    /\ threads = 2
    /\ \E w \in Workers :
          /\ wpc[w] = "ss_write"
          /\ fileHandle = w
          /\ \E v \in Workers \ {w} : wpc[v] = "ss_lock"

\* ----------------------------------------------------------------- C13
\* Targets whose ScanSuccess call has left the file section: the call has
\* returned, or only its counter increment is still to come.
C13_Written ==
    {t \in TargetIds :
        \/ finished[t] >= 1 /\ \E i \in 1..Len(dataList) :
                                  dataList[i].id = t /\ dataList[i].ok
        \/ \E w \in Workers : /\ wcur[w].id = t
                              /\ wpc[w] \in {"ss_unlock", "ss_add"}}

\* C13: with an output path configured and no file error, at every point
\* of the run the output file holds exactly one line for each ScanSuccess
\* call that has left the file section, and nothing else: no line is
\* lost, duplicated or overwritten, and the line is there by the time the
\* call returns.
C13_FileHoldsOneLinePerSuccess ==
    (OutputFile # "" /\ \A t \in TargetIds : fileErr[t] = "none") =>
        /\ Len(file) = Cardinality(C13_Written)
        /\ \A t \in C13_Written : \E i \in 1..Len(file) : file[i] = t
        /\ \A i, j \in 1..Len(file) : file[i] = file[j] => i = j

\* Two lines are in the file while the run is still going on.
C13_Witness ==
    /\ OutputFile # ""
    /\ \A t \in TargetIds : fileErr[t] = "none"
    /\ Len(file) = 2
    /\ \E w \in Workers : wpc[w] = "ss_unlock"
    /\ mpc # "returned"

\* ----------------------------------------------------------------- C14
\* C14: when os.OpenFile fails inside ScanSuccess the failure is
\* swallowed: the worker goes on to release the mutex and to increment
\* the success counter (it holds neither the mutex nor a handle once past
\* the unlock), the probe returns and is counted like any other, no
\* increment is missing, and once every worker has exited every target
\* handed to the scanner has been processed.
C14_OpenFailureSwallowed ==
    /\ \A w \in Workers :
          (wcur[w] # NoTarget /\ fileErr[wcur[w].id] = "open") =>
              /\ wpc[w] \in {"ss_unlock", "ss_add", "count"}
              /\ (wpc[w] # "ss_unlock") => mx # w
              /\ fileHandle # w
    /\ \A t \in TargetIds :
          fileErr[t] = "open" =>
              \/ finished[t] = 1
              \/ \E w \in Workers : wcur[w].id = t /\ wpc[w] # "count"
    /\ ScanSuccessCount + Cardinality(C11_InScanSuccess) = ssCalls
    /\ ((\A w \in Workers : wpc[w] = "exited") /\ mpc \notin {"setup", "feed"})
          => \A i \in 1..Len(dataList) : finished[dataList[i].id] = 1

\* The first success could not open the file, yet it was counted, the
\* mutex is free and a later target was written to the file.
C14_Witness ==
    /\ fileErr[1] = "open"
    /\ finished[1] = 1
    /\ finished[2] = 1
    /\ ScanSuccessCount = 2
    /\ mx = 0
    /\ file = <<2>>

\* ----------------------------------------------------------------- C15
\* C15: in the relay probe a dial attempt that fails with a DNS failure
\* (also one reported as a timeout), with "network is unreachable" or with
\* any other non-timeout error ends the probe after that attempt: the
\* probe has returned, that attempt is the last dial, every dial before it
\* was a connect timeout, no connection exists, the exchange was never
\* started and ScanSuccess was not called.
C15_RelayTerminalDialErrors ==
    (/\ kind = "relay"
     /\ \E i \in 1..Len(dials) :
           dials[i] \in {"dns", "dnsTimeout", "unreachable", "other"}) =>
        /\ ppc \in {"returned", "counted"}
        /\ dials[Len(dials)] \in {"dns", "dnsTimeout", "unreachable", "other"}
        /\ \A i \in 1..(Len(dials) - 1) : dials[i] = "timeout"
        /\ dialCount = Len(dials)
        /\ conn = "none"
        /\ conns = <<>>
        /\ xpc = "none"
        /\ ~written
        /\ results = <<>>
        /\ logged = <<>>
        /\ ScanSuccessCount = 0

\* After one connect timeout the second attempt fails with a DNS error
\* that reports itself as a timeout, and the probe has returned.
C15_Witness ==
    /\ kind = "relay"
    /\ dials = <<"timeout", "dnsTimeout">>
    /\ ppc = "returned"

\* ----------------------------------------------------------------- C16
\* C16: for every probe kind and every exit path, every connection the
\* invocation opened is closed once the invocation has returned; a
\* connection is closed before the next one is opened; and a connection is
\* closed only by a step of the probe function that opened it (a step
\* that moves the probe function on), never by the exchange goroutine.
C16_ConnectionsClosedByOwner ==
    [][/\ ppc' \in {"returned", "counted"} =>
              /\ conn' # "open"
              /\ \A i \in 1..Len(conns') : conns'[i] = "closed"
       /\ \A i \in 1..(Len(conns') - 1) : conns'[i] = "closed"
       /\ (\E i \in 1..Len(conns) : conns[i] = "open" /\ conns'[i] = "closed")
              => ppc' # ppc /\ ppc \notin {"returned", "counted"}
       /\ Len(conns') >= Len(conns)
       /\ \A i \in 1..Len(conns) : conns[i] = "closed" => conns'[i] = "closed"
      ]_vars

\* The direct probe went through two ports, opened a connection on each
\* and has returned.
C16_Witness ==
    /\ kind = "direct"
    /\ conns = <<"closed", "closed">>
    /\ ppc = "returned"

\* ----------------------------------------------------------------- C17
\* The first line of a buffer: everything before its first newline.
C17_FirstLine(resp) ==
    IF \E i \in 1..Len(resp) : resp[i] = "\n"
      THEN SubSeq(resp, 1,
               (CHOOSE i \in 1..Len(resp) :
                    resp[i] = "\n" /\ \A j \in 1..(i - 1) : resp[j] # "\n") - 1)
      ELSE resp

\* The whitespace-delimited tokens of a line, as pairs of positions.
C17_Tokens(line) ==
    {t \in (1..Len(line)) \X (1..Len(line)) :
        /\ t[1] <= t[2]
        /\ \A k \in t[1]..t[2] : ~IsSpace(line[k])
        /\ t[1] = 1 \/ IsSpace(line[t[1] - 1])
        /\ t[2] = Len(line) \/ IsSpace(line[t[2] + 1])}

\* The value of a decimal numeral, from its leftmost digit.
RECURSIVE C17_Decimal(_, _)
C17_Decimal(ds, sofar) ==
    IF ds = <<>> THEN sofar
    ELSE C17_Decimal(Tail(ds), 10 * sofar + DigitValue(Head(ds)))

\* What the claim gives as status code: the second token read as an
\* integer, 0 without a second token or when it is no integer.
C17_Expected(resp) ==
    LET line == C17_FirstLine(resp)
        toks == C17_Tokens(line)
        second == {t \in toks : Cardinality({u \in toks : u[1] < t[1]}) = 1}
    IN IF second = {} THEN 0
       ELSE LET t == CHOOSE u \in second : TRUE
                tok == SubSeq(line, t[1], t[2])
                num == IF tok[1] \in {"+", "-"} THEN Tail(tok) ELSE tok
            IN IF num = <<>> \/ \E k \in 1..Len(num) : ~IsDigit(num[k]) THEN 0
               ELSE IF tok[1] = "-" THEN 0 - C17_Decimal(num, 0)
               ELSE C17_Decimal(num, 0)

\* A buffer with no header lines: nothing follows its first line.
C17_NoHeaderLines(resp) == \A i \in 1..Len(resp) : resp[i] # "\n"

\* C17 as stated: the status code is the second whitespace-delimited token
\* of the first line as an integer, 0 when there is none or it is no
\* integer; and a response with no header lines yields status 0 and empty
\* server and location.
C17_AsStated ==
    ppc = "parsed" =>
        /\ parsed.statusCode = C17_Expected(response)
        /\ C17_NoHeaderLines(response) => parsed = NoHeaders

\* C17, amended: the status code is the second whitespace-delimited token
\* of the first line as an integer, 0 when there is none or it is no
\* integer; a response with no header lines yields empty server and
\* location, and an empty response yields status 0 as well.
C17_StatusCodeIsSecondToken ==
    ppc = "parsed" =>
        /\ parsed.statusCode = C17_Expected(response)
        /\ C17_NoHeaderLines(response) =>
              parsed.server = <<>> /\ parsed.location = <<>>
        /\ response = <<>> => parsed = NoHeaders

\* A status line alone, with no header lines, has been parsed to 200.
C17_Witness ==
    /\ ppc = "parsed"
    /\ response = StatusOK
    /\ parsed.statusCode = 200

\* ----------------------------------------------------------------- C18
\* The header lines of a buffer: the lines after the first one, trimmed,
\* up to the first blank one.
C18_HeaderLines(resp) ==
    LET lines == SplitNewline(resp)
        rest == [i \in 1..(Len(lines) - 1) |-> TrimSpace(lines[i + 1])]
        blank == {i \in 1..Len(rest) : rest[i] = <<>>}
        n == IF blank = {} THEN Len(rest)
             ELSE (CHOOSE i \in blank : \A j \in blank : i <= j) - 1
    IN SubSeq(rest, 1, n)

\* The value of the first header line with the given name (lower case,
\* with its colon), empty when there is none.
C18_FirstValue(resp, name) ==
    LET hs == C18_HeaderLines(resp)
        m == {i \in 1..Len(hs) : HasPrefix(ToLower(hs[i]), name)}
    IN IF m = {} THEN <<>>
       ELSE LET i == CHOOSE k \in m : \A j \in m : k <= j
            IN TrimSpace(SubSeq(hs[i], Len(name) + 1, Len(hs[i])))

\* C18: parsing returns for Server and for Location the value of the
\* first header line whose name matches case-insensitively, among the
\* lines before the first blank line; later lines with the same name and
\* lines after the blank line do not change the result.
C18_FirstMatchingHeaderWins ==
    ppc = "parsed" =>
        /\ parsed.server = C18_FirstValue(response, PrefixServerColon)
        /\ parsed.location = C18_FirstValue(response, PrefixLocationColon)

\* ----------------------------------------------------------------- C19
\* The responses read without error whose Location is empty or differs
\* from the suppression value.
C19_Recordable ==
    {i \in 1..Len(attempts) :
        /\ attempts[i].ev = "read"
        /\ attempts[i].loc = <<>> \/ attempts[i].loc # hide}

\* C19: the direct probe records a success exactly for the responses it
\* read whose parsed Location is empty or differs from the suppression
\* value: there are as many ScanSuccess calls as such responses, and while
\* a suppression value is set every response read with that Location
\* leaves the successes as they are.
C19_DirectSuccessIffNotSuppressed ==
    kind = "direct" =>
        /\ Len(results) = Cardinality(C19_Recordable)
        /\ ScanSuccessCount = Cardinality(C19_Recordable)
        /\ (\A i \in 1..Len(attempts) :
               attempts[i].ev = "read" /\ attempts[i].loc = hide /\ hide # <<>>)
              => results = <<>>

\* Two responses were read, one with the suppressed Location and one with
\* none, and one success is recorded.
C19_Witness ==
    /\ kind = "direct"
    /\ hide # <<>>
    /\ Len(attempts) = 2
    /\ \E i, j \in 1..2 :
          /\ attempts[i] = Event("read", hide)
          /\ attempts[j] = Event("read", <<>>)
    /\ Len(results) = 1

\* ----------------------------------------------------------------- C20
\* The calls of the direct probe that failed.
C20_Failures ==
    {i \in 1..Len(attempts) :
        attempts[i].ev \in {"dnsErr", "dialErr", "dialTimeout", "writeErr",
                            "readErr"}}

\* C20: in the direct probe a DNS failure, a connect failure or timeout, a
\* write failure or a read failure yields no ScanSuccess call and no log
\* line (there are never more of either than responses read without
\* error, and none when every call failed), does not abort the run (no
\* panic; the probe goes on to the next port or returns, holding no
\* connection), and the target is counted as completed once the probe has
\* returned.
C20_DirectFailuresAreSilent ==
    kind = "direct" =>
        LET reads == Cardinality({i \in 1..Len(attempts) :
                                      attempts[i].ev = "read"})
        IN /\ Len(results) <= reads
           /\ Len(logged) <= reads
           /\ ScanSuccessCount <= reads
           /\ ~panicked
           /\ (C20_Failures # {} /\ reads = 0) =>
                 results = <<>> /\ logged = <<>> /\ ScanSuccessCount = 0
           /\ ppc \in {"dialport", "returned", "counted"} => conn # "open"
           /\ ppc = "counted" => ScanComplete = 1
           /\ ppc # "counted" => ScanComplete = 0

\* A connect timeout on the first port and a read failure on the second:
\* nothing recorded, nothing logged, the target counted.
C20_Witness ==
    /\ kind = "direct"
    /\ attempts = <<Event("dialTimeout", <<>>), Event("readErr", <<>>)>>
    /\ results = <<>>
    /\ logged = <<>>
    /\ ppc = "counted"
    /\ ScanComplete = 1

\* ----------------------------------------------------------------- C21
\* Dial results that are timeouts (err.Timeout() is true).
C21_Timeouts == {"timeout", "dnsTimeout"}

\* C21: the SNI probe dials at most 3 times, dials again only after a
\* timeout and gives up at once on any other dial error (which is then
\* its last dial, with nothing recorded); it records a success, once,
\* exactly when a dial succeeded and the handshake that followed returned
\* without error.
C21_SniDialsAndSuccess ==
    kind = "sni" =>
        /\ Len(dials) <= 3
        /\ \A i \in 1..(Len(dials) - 1) : dials[i] \in C21_Timeouts
        /\ (Len(dials) >= 1 /\ dials[Len(dials)] \notin C21_Timeouts \cup {"ok"})
              => /\ ppc \in {"returned", "counted"}
                 /\ conns = <<>>
                 /\ ~handshook
                 /\ results = <<>>
        /\ (Len(dials) >= 1 /\ dials[Len(dials)] \in C21_Timeouts)
              => /\ ppc \in {"dial", "returned", "counted"}
                 /\ ppc \in {"returned", "counted"} => Len(dials) = 3
                 /\ results = <<>>
        /\ (results # <<>>) <=>
              (Len(dials) >= 1 /\ dials[Len(dials)] = "ok" /\ handshook)
        /\ Len(results) <= 1
        /\ ScanSuccessCount = Len(results)
        /\ results # <<>> => results = <<SniFormat(PeerIP, Domain)>>

\* Two timeouts, one of them a DNS timeout, then a successful dial and a
\* completed handshake: one success.
C21_Witness ==
    /\ kind = "sni"
    /\ dials = <<"timeout", "dnsTimeout", "ok">>
    /\ handshook
    /\ Len(results) = 1

\* ----------------------------------------------------------------- C22
\* C22: rendering is deterministic and complete: rendering the same
\* template with the same values again gives the same bytes, and with a
\* value supplied for every placeholder the probe substitutes, the bytes
\* written to the connection contain none of these placeholder tokens.
C22_RenderedHasNoPlaceholder ==
    (ppc = "rendered" /\ arg.order = CodeOrder(kind)) =>
        /\ ret = SubstituteAll(arg.template, arg.vals, CodeOrder(kind))
        /\ \A i \in 1..Len(CodeOrder(kind)) :
              ~Contains(ret, TokenText[CodeOrder(kind)[i]])

\* ----------------------------------------------------------------- C23
\* C23: substitution is order-independent: for every template and every
\* assignment of values, substituting the placeholders in another order
\* gives the same bytes as the order the code uses.
C23_OrderIndependent ==
    ppc = "rendered" =>
        ret = SubstituteAll(arg.template, arg.vals, CodeOrder(kind))

\* ----------------------------------------------------------------- C24
\* The number of addresses of a block with prefix length p.
C24_Size(p) == 2 ^ (32 - p)

\* The k-th address (from 0) of the block of an address, as text: the
\* block starts where the last two bytes have their host bits cleared.
C24_Address(a, p, k) ==
    LET low == a[3] * 256 + a[4]
        start == (low \div C24_Size(p)) * C24_Size(p)
        n == start + k
    IN Itoa(a[1]) \o <<".">> \o Itoa(a[2]) \o <<".">> \o Itoa(n \div 256)
           \o <<".">> \o Itoa(n % 256)

C25_IsIPAddress(h) ==
    \/ /\ Len(h) > 0
       /\ \A i \in 1..Len(h) : IsDigit(h[i]) \/ h[i] = "."
    \/ Contains(h, <<":">>)

\* C25: the bug value is the target when the path is "/"; otherwise the
\* configured bug when one is set; otherwise the target for a relay host
\* that is an IP address and the relay host itself for a hostname.
C25_BugValueRule ==
    ppc = "bug_done" =>
        ret = IF arg.flagPath = <<"/">> THEN arg.flagTarget
              ELSE IF arg.flagBug # <<>> THEN arg.flagBug
              ELSE IF C25_IsIPAddress(arg.proxyHost) THEN arg.flagTarget
              ELSE arg.proxyHost

RECURSIVE C27_Executing(_)
C27_Executing(n) ==
    IF n = 0 THEN 0 ELSE invoked[n] - finished[n] + C27_Executing(n - 1)

\* C27: the queue never holds more than 2 x threads targets and never more
\* than `threads` probe invocations are executing; while the queue is full
\* the feeding loop does not advance; the queue only changes by a send
\* that appends the next target or by a receive that hands its head to an
\* idle worker, so no queued target is dropped or overwritten.
C27_BoundedQueueAndWorkers ==
    [][/\ Len(queue) <= 2 * threads
       /\ Len(queue') <= 2 * threads
       /\ C27_Executing(Len(dataList)) <= threads
       /\ C27_Executing(Len(dataList))' <= threads
       /\ (mpc = "feed" /\ idx <= Len(dataList) /\ Len(queue) = 2 * threads) =>
             (idx' = idx /\ mpc' = mpc)
       /\ \/ queue' = queue
          \/ /\ idx <= Len(dataList)
             /\ queue' = Append(queue, dataList[idx])
          \/ /\ queue # <<>>
             /\ queue' = Tail(queue)
             /\ \E w \in Workers :
                   /\ wcur[w] = NoTarget
                   /\ wcur'[w] = Head(queue)]_vars

\* The feeding loop waits: the queue is full and a target is still to be
\* sent.
C27_Witness ==
    /\ mpc = "feed"
    /\ Len(queue) = 2 * threads
    /\ idx <= Len(dataList)

\* ----------------------------------------------------------------- C29
\* The targets Start has not sent yet.
C29_NotEnqueued == Len(dataList) - (idx - 1)

\* The workers inside a probe invocation, and the workers whose probe has
\* returned but whose increment of the completed counter is still to come.
C29_BeingProbed ==
    {w \in Workers :
        wpc[w] \in {"scan", "ss_lock", "ss_open", "ss_write", "ss_unlock",
                    "ss_add"}}
C29_Returned == {w \in Workers : wpc[w] = "count"}

\* C29 as stated: not enqueued + in the queue + being probed + completed
\* is the number of targets, in every state.
C29_AsStated ==
    C29_NotEnqueued + Len(queue) + Cardinality(C29_BeingProbed)
        + ScanComplete = Len(dataList)

\* The same sum with the targets whose probe returned and is not counted
\* yet.
C29_Conserved ==
    C29_NotEnqueued + Len(queue) + Cardinality(C29_BeingProbed)
        + Cardinality(C29_Returned) + ScanComplete = Len(dataList)

\* C29, amended: the completed counter never decreases, it changes only
\* by one and only by a worker whose probe invocation has returned, and
\* in every state not enqueued + in the queue + being probed + returned
\* but not yet counted + completed is the number of targets, so the
\* counter never exceeds it.
C29_CounterAndConservation ==
    [][/\ ScanComplete' >= ScanComplete
       /\ ScanComplete' # ScanComplete =>
             /\ ScanComplete' = ScanComplete + 1
             /\ \E w \in Workers :
                   /\ wpc[w] = "count"
                   /\ wpc'[w] # "count"
                   /\ finished[wcur[w].id] = invoked[wcur[w].id]
       /\ C29_Conserved
       /\ C29_Conserved'
       /\ ScanComplete' <= Len(dataList')]_vars

\* One target is counted and the probe of another has returned without
\* being counted yet.
C29_Witness ==
    /\ ScanComplete = 1
    /\ C29_Returned # {}
    /\ ~C29_AsStated

\* ----------------------------------------------------------------- C28
\* The characters of the printed line between the leading line-clearing
\* sequence and the trailing carriage return.
C28_Line == SubSeq(ret.printed, 3, Len(ret.printed) - 1)

\* C28: for every reported terminal width and every progress text
\* LogReplace does not fail and prints a line of at most that many
\* characters; without a terminal size it prints the whole line and does
\* not fail.
C28_LineFitsTerminal ==
    ppc = "log_done" =>
        /\ ~ret.panic
        /\ arg.err = "nil" => Len(C28_Line) <= arg.termWidth
        /\ arg.err # "nil" =>
              C28_Line = ProgressLine(arg.complete, arg.total, arg.success,
                                      arg.a)

\* ----------------------------------------------------------------- C30
\* The connect loop of probe k fed with the dial outcomes seq, after n
\* attempts: the attempts made and whether it gave up, proceeded or would
\* dial again.
RECURSIVE C30_ConnectLoop(_, _, _)
C30_ConnectLoop(k, seq, n) ==
    IF DialLimitReached(n + 1) THEN [attempts |-> n, decision |-> "giveup"]
    ELSE IF seq = <<>> THEN [attempts |-> n, decision |-> "retry"]
    ELSE IF DialDecision(k, Head(seq)) = "retry"
           THEN C30_ConnectLoop(k, Tail(seq), n + 1)
    ELSE [attempts |-> n + 1, decision |-> DialDecision(k, Head(seq))]

\* C30: on the sequence of dial outcomes a relay or CDN-TLS probe has
\* seen, the probe did what its connect loop says, and the connect loops
\* of the two probes make the same number of attempts and take the same
\* decision.
C30_SameRetryPolicy ==
    kind \in {"relay", "cdn"} =>
        /\ Len(dials) = C30_ConnectLoop(kind, dials, 0).attempts
        /\ C30_ConnectLoop("relay", dials, 0) = C30_ConnectLoop("cdn", dials, 0)

\* ----------------------------------------------------------------- C31
\* C31: in the CDN-TLS probe the exchange exists and the payload is
\* written only after the TLS handshake succeeded; an invocation that has
\* left the handshake without success has returned with nothing written,
\* no exchange started and no success recorded.
C31_NoPayloadBeforeHandshake ==
    kind = "cdn" =>
        /\ (written \/ xpc # "none" \/ ppc \in {"spawn", "select"}) => handshook
        /\ (~handshook /\ ppc \notin {"dial", "handshake"}) =>
              /\ ppc \in {"returned", "counted"}
              /\ ~written
              /\ xpc = "none"
              /\ results = <<>>
              /\ ScanSuccessCount = 0
              /\ conn # "open"

\* A CDN-TLS probe whose connection was opened and whose handshake failed
\* has returned.
C31_Witness ==
    /\ kind = "cdn"
    /\ conns # <<>>
    /\ ~handshook
    /\ ppc = "returned"
    /\ ~written

\* ----------------------------------------------------------------- C32
\* The lines of a response before its first blank line.
RECURSIVE C32_BeforeBlank(_)
C32_BeforeBlank(ls) ==
    IF ls = <<>> \/ Head(ls) = LineEmpty THEN <<>>
    ELSE <<Head(ls)>> \o C32_BeforeBlank(Tail(ls))

C32_IsLocationOrServer(l) ==
    HasPrefix(l, PrefixLocation) \/ HasPrefix(l, PrefixServer)

\* The first line and the later Location and Server lines, in order.
C32_Expected(ls) ==
    IF C32_BeforeBlank(ls) = <<>> THEN <<>>
    ELSE <<Head(C32_BeforeBlank(ls))>>
            \o SelectSeq(Tail(C32_BeforeBlank(ls)), C32_IsLocationOrServer)

\* C32: in the relay exchange the captured list is the first line read
\* followed by the later lines that begin with Location or Server, in
\* order, from the lines before the first blank line; nothing is read
\* after a blank line.
C32_CapturedLines ==
    kind = "relay" =>
        /\ responseLines = C32_Expected(scanned)
        /\ \A i \in 1..(Len(scanned) - 1) : scanned[i] # LineEmpty
        /\ (scanned # <<>> /\ scanned[Len(scanned)] = LineEmpty) => xpc # "read"

\* A status line, a line that is dropped and a Location line were read:
\* two of the three are captured.
C32_Witness ==
    /\ kind = "relay"
    /\ Len(scanned) = 3
    /\ ~C32_IsLocationOrServer(scanned[2])
    /\ C32_IsLocationOrServer(scanned[3])
    /\ responseLines = <<scanned[1], scanned[3]>>

\* ----------------------------------------------------------------- C33
\* C33: a second Start() on an engine whose first Start() has returned
\* does not fail.
C33_SecondStartDoesNotFail == mpc = "again" => ~panicked

\* ----------------------------------------------------------------- C34
\* C34: in the probe over all resolved addresses, a response whose
\* Location equals the hide value is the last thing the probe does for its
\* domain: no further address is tried after it.
C34_StopsAfterHiddenLocation ==
    kind = "multi" =>
        \A i \in 1..(Len(attempts) - 1) :
            ~(/\ attempts[i].ev = "read"
              /\ arg.hide # <<>>
              /\ attempts[i].loc = arg.hide)

\* ----------------------------------------------------------------- C35
\* C35: every relay-probe invocation eventually returns, whatever the
\* relay does after accepting the connection; a probe still waiting in its
\* select when the result timer has fired can return by the timer.
C35_RelayProbeReturns ==
    /\ (kind = "relay") ~> (ppc \in {"returned", "counted"})
    /\ [](kind = "relay" /\ ppc = "select" /\ timerFired
             => ENABLED SelectTimeout)

\* The relay accepted the connection and sent nothing: the exchange is
\* still in its first read and the probe has returned by the timer.
C35_Witness ==
    /\ kind = "relay"
    /\ ppc = "returned"
    /\ selected = "timeout"
    /\ written
    /\ xpc = "read"
    /\ scanned = <<>>

\* ----------------------------------------------------------------- C36
\* C36: every exchange goroutine of a relay or CDN-TLS probe that was
\* started eventually terminates.
C36_ExchangeTerminates ==
    (kind \in {"relay", "cdn"} /\ xpc # "none") ~> (xpc = "done")

\* ----------------------------------------------------------------- C37
\* C37: in the CDN-TLS probe, once the exchange goroutine has finished
\* the probe invocation has returned or can return by the result channel,
\* without the timer.
C37_CdnReturnsWithExchange ==
    (kind = "cdn" /\ xpc = "done" /\ ppc = "select") => ENABLED SelectResult

\* ----------------------------------------------------------------- C38
\* C38: in the relay and CDN-TLS probes the connection is not closed
\* while the exchange goroutine still has a write or a read to perform on
\* it.
C38_NoUseAfterClose ==
    (kind \in {"relay", "cdn"} /\ conn = "closed") =>
        xpc \notin {"write", "read"}

\* ----------------------------------------------------------------- C39
\* C39: a probe invocation calls ScanSuccess at most once: the success
\* counter of the one invocation under way is at most one, and so is the
\* number of results it recorded.
C39_AtMostOneSuccessPerInvocation ==
    ScanSuccessCount <= 1 /\ Len(results) <= 1

\* ----------------------------------------------------------------- C40
\* C40: CIDR expansion terminates.  Whether the loop goes on depends on
\* its current address alone, so it terminates exactly when it never comes
\* back, still inside the block, to the address it started from.
C40_ExpansionTerminates ==
    (kind = "cidr1" /\ ppc = "cidr_loop" /\ locals.ips # <<>>) =>
        ~(/\ locals.currentIP = Mask(arg.ip, arg.prefix)
          /\ NetContains(Mask(arg.ip, arg.prefix), arg.prefix,
                         locals.currentIP))
====
